---- MODULE Spec2Model ----
(***************************************************************************)
(* Playbook execution engine of SpeakInsights                               *)
(* (backend/app/services/playbooks.py).                                    *)
(*                                                                         *)
(* A DataFrame is modelled column-wise: an ordered list of column names,   *)
(* a dtype per column ("number", "object", "bool"), the number of rows and *)
(* one sequence of cells per column.  A cell is <<>> (NaN / None) or <<v>> *)
(* with v an integer; in an object column v is the code of a string.      *)
(* Decimal results are kept as scaled integers: a value rounded to d       *)
(* decimal places is the integer value * 10^d.                             *)
(***************************************************************************)
EXTENDS Integers, Sequences, FiniteSets, TLC

VARIABLES df, call, result, pc

vars == <<df, call, result, pc>>

(* ---------------------------------------------------------------------- *)
(* Bounds                                                                   *)
(* ---------------------------------------------------------------------- *)
MaxRows == 6

(* ---------------------------------------------------------------------- *)
(* Python / pandas values                                                   *)
(* ---------------------------------------------------------------------- *)
None == "<None>"
NaN == <<>>
Cell(v) == <<v>>
IsNull(c) == c = <<>>
Val(c) == c[1]

\* an argument that is no str but an unhashable value (a non-empty list):
\* "x in df.columns" and "x in {...}" raise TypeError on it
Unhashable == "<unhashable>"

\* truthiness of an Optional[str] parameter: None and "" are falsy
Falsy(s) == s = None \/ s = ""

\* str.lower() on the column names that occur in the row sets below
Lower(s) ==
    CASE s = "Age" -> "age"
      [] s = "Outcome" -> "outcome"
      [] s = "BMI" -> "bmi"
      [] s = "Label" -> "label"
      [] s = "Insulin" -> "insulin"
      [] OTHER -> s

\* str(v) of a scalar: injective, kept apart from the scalar itself
Str(v) == <<"str", v>>

\* round(num / den, d) scaled by 10^d is RoundDiv(num * 10^d, den):
\* nearest integer, ties to even (Python's round on an exact value)
RoundDiv(num, den) ==
    LET q == num \div den
        r == num - q * den
    IN  IF 2 * r < den THEN q
        ELSE IF 2 * r > den THEN q + 1
        ELSE IF q % 2 = 0 THEN q ELSE q + 1

\* floor of the square root of n, searched between lo and hi
RECURSIVE ISqrtIn(_, _, _)
ISqrtIn(n, lo, hi) ==
    IF lo >= hi THEN lo
    ELSE LET mid == (lo + hi + 1) \div 2
         IN  IF mid * mid <= n THEN ISqrtIn(n, mid, hi) ELSE ISqrtIn(n, lo, mid - 1)

(* ---------------------------------------------------------------------- *)
(* Sequences                                                                *)
(* ---------------------------------------------------------------------- *)
Range(s) == {s[i] : i \in 1..Len(s)}

RECURSIVE SeqSum(_)
SeqSum(s) == IF s = <<>> THEN 0 ELSE Head(s) + SeqSum(Tail(s))

RECURSIVE SeqMin(_)
SeqMin(s) == IF Len(s) = 1 THEN s[1]
             ELSE LET m == SeqMin(Tail(s)) IN IF s[1] <= m THEN s[1] ELSE m

RECURSIVE SeqMax(_)
SeqMax(s) == IF Len(s) = 1 THEN s[1]
             ELSE LET m == SeqMax(Tail(s)) IN IF s[1] >= m THEN s[1] ELSE m

\* the elements of the set of integers S in ascending order
Ascending(S) ==
    IF S = {} THEN <<>>
    ELSE [k \in 1..Cardinality(S) |->
             CHOOSE i \in S : Cardinality({j \in S : j < i}) = k - 1]

SelectIdx(n, P(_)) == Ascending({i \in 1..n : P(i)})

\* insertion of x into the ascending sequence s, after equal elements
RECURSIVE InsertSorted(_, _)
InsertSorted(x, s) ==
    IF s = <<>> THEN <<x>>
    ELSE IF x < Head(s) THEN <<x>> \o s
    ELSE <<Head(s)>> \o InsertSorted(x, Tail(s))

RECURSIVE SortAsc(_)
SortAsc(s) == IF s = <<>> THEN <<>> ELSE InsertSorted(Head(s), SortAsc(Tail(s)))

\* the distinct elements of s in order of first appearance
Unique(s) ==
    LET first == Ascending({i \in 1..Len(s) : \A j \in 1..(i - 1) : s[j] # s[i]})
    IN  [k \in 1..Len(first) |-> s[first[k]]]

Count(s, x) == Cardinality({i \in 1..Len(s) : s[i] = x})

Head_n(s, n) == IF n >= 0 THEN SubSeq(s, 1, IF n < Len(s) THEN n ELSE Len(s))
                ELSE SubSeq(s, 1, IF Len(s) + n > 0 THEN Len(s) + n ELSE 0)

(* ---------------------------------------------------------------------- *)
(* DataFrame                                                                *)
(* ---------------------------------------------------------------------- *)
\* df.columns membership
HasCol(f, c) == c \in Range(f.columns)

\* a frame taken for empty only when it has no rows
FrameEmptyRowsOnly(f) == f.nrows = 0

\* DataFrame.empty: any axis of length 0
FrameEmpty(f) == f.nrows = 0 \/ Len(f.columns) = 0

\* df.select_dtypes(include="number"): int and float columns, not bool
select_dtypes_number(f) ==
    LET idx == SelectIdx(Len(f.columns), LAMBDA i : f.dtypes[f.columns[i]] = "number")
    IN  [columns |-> [k \in 1..Len(idx) |-> f.columns[idx[k]]],
         dtypes  |-> f.dtypes,
         nrows   |-> f.nrows,
         data    |-> f.data]

\* pd.api.types.is_numeric_dtype: int, float and bool
is_numeric_dtype(f, c) == f.dtypes[c] \in {"number", "bool"}

\* rows kept by the row positions in idx
TakeRows(f, idx) ==
    [columns |-> f.columns,
     dtypes  |-> f.dtypes,
     nrows   |-> Len(idx),
     data    |-> [c \in DOMAIN f.data |-> [k \in 1..Len(idx) |-> f.data[c][idx[k]]]]]

\* DataFrame.dropna(): rows with no null in any column of the frame
dropna(f) ==
    TakeRows(f, SelectIdx(f.nrows,
        LAMBDA i : \A k \in 1..Len(f.columns) : ~IsNull(f.data[f.columns[k]][i])))

\* Series.dropna() as the sequence of the values
NonNull(col) ==
    LET idx == SelectIdx(Len(col), LAMBDA i : ~IsNull(col[i]))
    IN  [k \in 1..Len(idx) |-> Val(col[idx[k]])]

\* Series.nunique(dropna=True)
nunique(col) == Cardinality(Range(NonNull(col)))

(* ---------------------------------------------------------------------- *)
(* Row sets                                                                 *)
(* ---------------------------------------------------------------------- *)
\* value of row i of a column that follows the pattern p
PatCell(p, i) ==
    CASE p = "asc"   -> Cell(i)
      [] p = "neg"   -> Cell(0 - i)
      [] p = "const" -> Cell(3)
      [] p = "alt"   -> Cell(i % 2)
      [] p = "gap"   -> IF i = 2 THEN NaN ELSE Cell((i * i) % 5)
      [] p = "nulls" -> NaN
      [] p = "skew"  -> Cell(<<0, 1, 2, 2, 1, 2>>[((i - 1) % 6) + 1])
      [] p = "hole"  -> IF i % 3 = 0 THEN NaN ELSE Cell(i % 2)
      [] p = "true"  -> Cell(1)

Patterns == {"asc", "neg", "const", "alt", "gap", "nulls", "skew", "hole", "true"}

\* a column of a row set: its name, its dtype and the patterns it may follow
Col(name, dtype, pats) == [name |-> name, dtype |-> dtype, pats |-> pats]

Schemas ==
    { <<>>,
      <<Col("note", "object", {"asc", "const", "skew", "hole", "nulls"})>>,
      <<Col("x1", "number", {"asc", "gap", "const", "nulls"}),
        Col("Age", "number", {"neg", "alt", "gap", "nulls"})>>,
      <<Col("grp", "object", {"skew", "hole", "const", "nulls"}),
        Col("BMI", "number", {"asc", "const", "gap", "nulls"}),
        Col("Outcome", "number", {"alt", "gap"})>>,
      <<Col("y", "object", {"asc", "skew", "hole", "nulls"}),
        Col("score", "number", {"asc", "alt", "nulls"})>>,
      <<Col("a", "number", {"asc", "gap", "const"}),
        Col("b", "number", {"neg", "alt", "gap", "nulls"}),
        Col("outcome", "number", {"alt", "asc", "const"})>>,
      <<Col("seg", "object", {"skew", "hole", "const"}),
        Col("glucose", "number", {"asc", "const", "gap"}),
        Col("label", "bool", {"alt", "true"})>> }

MkFrame(schema, pats, n) ==
    [columns |-> [k \in 1..Len(schema) |-> schema[k].name],
     dtypes  |-> [c \in {schema[k].name : k \in 1..Len(schema)} |->
                     schema[CHOOSE k \in 1..Len(schema) : schema[k].name = c].dtype],
     nrows   |-> n,
     data    |-> [c \in {schema[k].name : k \in 1..Len(schema)} |->
                     LET k == CHOOSE j \in 1..Len(schema) : schema[j].name = c
                     IN  [i \in 1..n |-> PatCell(pats[k], i)]]]

\* the row sets: every schema, every assignment of patterns to its columns,
\* every number of rows from 0 to MaxRows
Frames ==
    UNION { { MkFrame(s, pats, n) :
                pats \in {p \in [1..Len(s) -> Patterns] : \A k \in 1..Len(s) : p[k] \in s[k].pats},
                n \in 0..MaxRows }
            : s \in Schemas }

(* ---------------------------------------------------------------------- *)
(* Results                                                                  *)
(* ---------------------------------------------------------------------- *)
\* the call returned {"visualization": ..., "analysis_context": ...}
Return(viz, ctx) == [raised |-> FALSE, visualization |-> viz, analysis_context |-> ctx]

\* the call raised the exception e instead of returning
Raise(e) == [raised |-> TRUE, error |-> e]

\* the empty table every playbook returns when it has nothing to show
EmptyTable(columns, title) ==
    [type |-> "table", data |-> [columns |-> columns, rows |-> <<>>],
     config |-> [title |-> title]]

(* ---------------------------------------------------------------------- *)
(* Statistics                                                               *)
(* ---------------------------------------------------------------------- *)
\* round(sqrt(p / q) * s / 2) for s = 2 * 10^d: floor(s^2 * p / q) is taken
\* in two divisions so that no product leaves the machine integers
RoundRoot(p, q, s) ==
    LET a == (s * p) \div q
        r == (s * p) % q
        x == s * a + (s * r) \div q
        exact == (s * r) % q = 0
        m == ISqrtIn(x, 0, IF x < 46340 THEN x ELSE 46340)
        tie == exact /\ m * m = x /\ m % 2 = 1
    IN  IF tie THEN (IF ((m - 1) \div 2) % 2 = 0 THEN (m - 1) \div 2 ELSE (m + 1) \div 2)
        ELSE (m + 1) \div 2

SumProd(xs, ys) == SeqSum([i \in 1..Len(xs) |-> xs[i] * ys[i]])

\* Pearson correlation of two aligned value lists, exact:
\* NaN when a variance is zero, else Cell([sgn, p, q]) for sgn * sqrt(p / q)
Pearson(xs, ys) ==
    LET n == Len(xs)
        cov == n * SumProd(xs, ys) - SeqSum(xs) * SeqSum(ys)
        vx == n * SumProd(xs, xs) - SeqSum(xs) * SeqSum(xs)
        vy == n * SumProd(ys, ys) - SeqSum(ys) * SeqSum(ys)
    IN  IF n = 0 \/ vx = 0 \/ vy = 0 THEN NaN
        ELSE Cell([sgn |-> IF cov < 0 THEN 0 - 1 ELSE IF cov > 0 THEN 1 ELSE 0,
                   p |-> cov * cov, q |-> vx * vy])

\* round(float(r), d) * 10^d of an exact correlation, s = 2 * 10^d
RoundCorr(r, s) == r.sgn * RoundRoot(r.p, r.q, s)

\* |r1| > |r2| for two exact correlations
AbsGreater(r1, r2) == r1.p * r2.q > r2.p * r1.q

\* Series.std() (ddof = 1) rounded to 2 decimals, times 100
Std100(vals) ==
    LET n == Len(vals)
    IN  RoundRoot(n * SumProd(vals, vals) - SeqSum(vals) * SeqSum(vals), n * (n - 1), 200)

\* Series.median() rounded to 2 decimals, times 100
Median100(vals) ==
    LET s == SortAsc(vals)
        n == Len(s)
    IN  IF n % 2 = 1 THEN 100 * s[(n + 1) \div 2]
        ELSE RoundDiv(100 * (s[n \div 2] + s[n \div 2 + 1]), 2)

Mean100(vals) == RoundDiv(100 * SeqSum(vals), Len(vals))

(* ---------------------------------------------------------------------- *)
(* overview_playbook                                                        *)
(* ---------------------------------------------------------------------- *)
\* one table row of the overview: series.describe() of a numeric column
OverviewRow(f, col) ==
    LET vals == NonNull(f.data[col])
        cnt == Len(vals)
        missing_pct == IF f.nrows > 0 THEN RoundDiv(1000 * (f.nrows - cnt), f.nrows) ELSE 0
    IN  [Feature |-> col,
         Min  |-> IF cnt = 0 THEN NaN ELSE Cell(100 * SeqMin(vals)),
         Max  |-> IF cnt = 0 THEN NaN ELSE Cell(100 * SeqMax(vals)),
         Mean |-> IF cnt = 0 THEN NaN ELSE Cell(Mean100(vals)),
         Std  |-> IF cnt < 2 THEN NaN ELSE Cell(Std100(vals)),
         Missing |-> missing_pct]

overview_playbook(f) ==
    LET row_count == f.nrows
        col_count == Len(f.columns)
        numeric_df == select_dtypes_number(f)
        rows == IF ~FrameEmpty(numeric_df)
                THEN [k \in 1..Len(numeric_df.columns) |-> OverviewRow(f, numeric_df.columns[k])]
                ELSE <<>>
    IN  Return([type |-> "table",
                data |-> [columns |-> <<"Feature", "Min", "Max", "Mean", "Std", "Missing %">>,
                          rows |-> rows],
                config |-> [title |-> <<"Dataset Overview">>]],
               [kind |-> "overview", row_count |-> row_count, column_count |-> col_count,
                numeric_features |-> numeric_df.columns])

(* ---------------------------------------------------------------------- *)
(* correlation_playbook                                                     *)
(* ---------------------------------------------------------------------- *)
\* corrs.reindex(corrs.abs().sort_values(ascending=False).index): entries
\* [label, r] by descending |r|, equal |r| kept in their original order
RECURSIVE InsertByAbs(_, _)
InsertByAbs(e, s) ==
    IF s = <<>> THEN <<e>>
    ELSE IF ~AbsGreater(Val(Head(s).r), Val(e.r)) THEN <<e>> \o s
    ELSE <<Head(s)>> \o InsertByAbs(e, Tail(s))

\* entries by descending signed r instead of descending |r|
RECURSIVE InsertBySigned(_, _)
InsertBySigned(e, s) ==
    IF s = <<>> THEN <<e>>
    ELSE IF Val(e.r).sgn > Val(Head(s).r).sgn
            \/ (Val(e.r).sgn = 1 /\ Val(Head(s).r).sgn = 1 /\ AbsGreater(Val(e.r), Val(Head(s).r)))
            \/ (Val(e.r).sgn = 0 - 1 /\ Val(Head(s).r).sgn = 0 - 1
                /\ AbsGreater(Val(Head(s).r), Val(e.r)))
         THEN <<e>> \o s
    ELSE <<Head(s)>> \o InsertBySigned(e, Tail(s))

RECURSIVE SortBySignedDesc(_)
SortBySignedDesc(s) ==
    IF s = <<>> THEN <<>>
    ELSE InsertBySigned(s[1], SortBySignedDesc(Tail(s)))

RECURSIVE SortByAbsDesc(_)
SortByAbsDesc(s) ==
    IF s = <<>> THEN <<>>
    ELSE InsertByAbs(s[1], SortByAbsDesc(Tail(s)))

\* num_df.corr()[outcome].drop(labels=[outcome]).dropna()
CorrsWith(num_df, outcome) ==
    LET idx == SelectIdx(Len(num_df.columns),
                 LAMBDA k : num_df.columns[k] # outcome
                            /\ ~IsNull(Pearson(NonNull(num_df.data[num_df.columns[k]]),
                                               NonNull(num_df.data[outcome]))))
    IN  [j \in 1..Len(idx) |->
            [label |-> num_df.columns[idx[j]],
             r |-> Pearson(NonNull(num_df.data[num_df.columns[idx[j]]]),
                           NonNull(num_df.data[outcome]))]]

\* num_df.corr().fillna(0.0).values.tolist(): exact entries, 0 for NaN
CorrMatrix(num_df) ==
    [i \in 1..Len(num_df.columns) |->
        [j \in 1..Len(num_df.columns) |->
            LET r == Pearson(NonNull(num_df.data[num_df.columns[i]]),
                             NonNull(num_df.data[num_df.columns[j]]))
            IN  IF IsNull(r) THEN Cell([sgn |-> 0, p |-> 0, q |-> 1]) ELSE r]]

MinCorrelationRows == 5

\* the guard with the row threshold off by one
InsufficientDataBelow4(num_df, outcome) ==
    ~HasCol(num_df, outcome) \/ num_df.nrows < MinCorrelationRows - 1

\* outcome not in num_df.columns or num_df.shape[0] < 5
InsufficientData(num_df, outcome) ==
    ~HasCol(num_df, outcome) \/ num_df.nrows < MinCorrelationRows

correlation_playbook(f, outcome, top_n) ==
    LET num_df == dropna(select_dtypes_number(f))
    IN  IF outcome = Unhashable THEN Raise("TypeError")   \* outcome not in num_df.columns
        ELSE IF InsufficientData(num_df, outcome)
        THEN Return(EmptyTable(num_df.columns, <<"Insufficient data for correlation analysis">>),
                    [kind |-> "correlation", reason |-> "insufficient_data"])
        ELSE
        LET corrs == CorrsWith(num_df, outcome)
        IN  IF corrs = <<>>
            THEN Return(EmptyTable(num_df.columns, <<"No meaningful correlations found">>),
                        [kind |-> "correlation", reason |-> "no_correlations"])
            ELSE
            LET top == Head_n(SortByAbsDesc(corrs), top_n)
                labels == [k \in 1..Len(top) |-> top[k].label]
                values == [k \in 1..Len(top) |-> RoundCorr(Val(top[k].r), 200)]
            IN  Return([type |-> "bar",
                        data |-> [labels |-> labels, values |-> values],
                        config |-> [title |-> <<"Top ", Len(labels), " features related to ", outcome>>,
                                    xLabel |-> "Feature",
                                    yLabel |-> <<"Correlation with ", outcome>>,
                                    mark |-> "bar", xField |-> "Feature", yField |-> "Correlation"],
                        metadata |-> [correlation_matrix |->
                                        [labels |-> num_df.columns, matrix |-> CorrMatrix(num_df)]]],
                       [kind |-> "correlation", outcome |-> outcome,
                        top_correlations |-> [k \in 1..Len(labels) |-> <<labels[k], values[k]>>]])

(* ---------------------------------------------------------------------- *)
(* Column auto-selection                                                    *)
(* ---------------------------------------------------------------------- *)
\* first column of cols whose lower-cased name is in names, else None
FirstNamed(cols, names) ==
    LET idx == SelectIdx(Len(cols), LAMBDA k : Lower(cols[k]) \in names)
    IN  IF idx = <<>> THEN None ELSE cols[idx[1]]

\* first column of f with 2 to 6 distinct non-null values, else the given one
FirstSegmentColumn(f, given) ==
    LET idx == SelectIdx(Len(f.columns),
                 LAMBDA k : nunique(f.data[f.columns[k]]) >= 2 /\ nunique(f.data[f.columns[k]]) <= 6)
    IN  IF idx = <<>> THEN given ELSE f.columns[idx[1]]

\* Series.value_counts(): [value, count] of the non-null values by
\* descending count, equal counts in order of first appearance
RECURSIVE InsertByCount(_, _)
InsertByCount(e, s) ==
    IF s = <<>> THEN <<e>>
    ELSE IF e.count >= Head(s).count THEN <<e>> \o s
    ELSE <<Head(s)>> \o InsertByCount(e, Tail(s))

\* value_counts(sort=False): the counts left in order of first appearance
KeepOrder(s) == s

RECURSIVE SortByCountDesc(_)
SortByCountDesc(s) ==
    IF s = <<>> THEN <<>> ELSE InsertByCount(s[1], SortByCountDesc(Tail(s)))

value_counts(col) ==
    LET vals == NonNull(col)
        u == Unique(vals)
    IN  SortByCountDesc([k \in 1..Len(u) |-> [value |-> u[k], count |-> Count(vals, u[k])]])

\* the counts by category with the nulls counted as one more category
CountsWithNulls(col) ==
    LET vals == NonNull(col)
        u == SortAsc(Unique(vals))
        nulls == Len(col) - Len(vals)
    IN  [k \in 1..Len(u) |-> [value |-> u[k], count |-> Count(vals, u[k])]]
        \o (IF nulls > 0 THEN <<[value |-> NaN, count |-> nulls]>> ELSE <<>>)

\* value_counts().sort_index() of a categorical: by ascending category
CountsByCategory(col) ==
    LET vals == NonNull(col)
        u == SortAsc(Unique(vals))
    IN  [k \in 1..Len(u) |-> [value |-> u[k], count |-> Count(vals, u[k])]]

(* ---------------------------------------------------------------------- *)
(* distribution_playbook                                                    *)
(* ---------------------------------------------------------------------- *)
\* np.histogram(series, bins)[0]: equal-width buckets over [min, max],
\* widened by 0.5 on both sides when min = max; the last bucket is closed
HistCounts(vals, bins) ==
    LET mn == SeqMin(vals)
        mx == SeqMax(vals)
        first2 == IF mn = mx THEN 2 * mn - 1 ELSE 2 * mn
        span2 == IF mn = mx THEN 2 ELSE 2 * (mx - mn)
        Bucket(x) == LET b == ((2 * x - first2) * bins) \div span2
                     IN  IF b >= bins THEN bins - 1 ELSE b
    IN  [b \in 1..bins |-> Cardinality({i \in 1..Len(vals) : Bucket(vals[i]) = b - 1})]

\* np.histogram(series, bins)[1] rounded to 2 decimals, times 100
HistEdges(vals, bins) ==
    LET mn == SeqMin(vals)
        mx == SeqMax(vals)
        first2 == IF mn = mx THEN 2 * mn - 1 ELSE 2 * mn
        span2 == IF mn = mx THEN 2 ELSE 2 * (mx - mn)
    IN  [e \in 1..(bins + 1) |-> RoundDiv(100 * (first2 * bins + (e - 1) * span2), 2 * bins)]

distribution_playbook(f, feature_in, bins) ==
    LET numeric_df == select_dtypes_number(f)
    IN  IF FrameEmpty(numeric_df)
        THEN Return(EmptyTable(<<>>, <<"No numeric columns available for distribution">>),
                    [kind |-> "distribution", reason |-> "no_numeric_columns"])
        ELSE IF feature_in = Unhashable
        THEN Raise("TypeError")   \* feature not in numeric_df.columns
        ELSE
        LET pick == FirstNamed(numeric_df.columns,
                               {"age", "score", "amount", "value", "glucose", "bmi"})
            fallback == Falsy(feature_in) \/ ~HasCol(numeric_df, feature_in)
            feature == IF fallback
                       THEN (IF ~Falsy(pick) THEN pick ELSE numeric_df.columns[1])
                       ELSE feature_in
            series == NonNull(f.data[feature])
        IN  IF fallback /\ Falsy(pick) /\ Len(numeric_df.columns) = 0
            THEN Raise("IndexError")   \* numeric_df.columns[0] of no columns
            ELSE IF series = <<>>
            THEN Return(EmptyTable(<<feature>>, <<"No valid values for ", feature>>),
                        [kind |-> "distribution", feature |-> feature,
                         reason |-> "no_valid_values"])
            ELSE IF bins < 1 THEN Raise("ValueError")
            ELSE
            LET counts == HistCounts(series, bins)
                bin_edges == HistEdges(series, bins)
                labels == [i \in 1..(Len(bin_edges) - 1) |-> <<bin_edges[i], bin_edges[i + 1]>>]
            IN  Return([type |-> "histogram",
                        data |-> [labels |-> labels, values |-> counts],
                        config |-> [title |-> <<"Distribution of ", feature>>,
                                    xLabel |-> feature, yLabel |-> "Count of rows",
                                    mark |-> "bar", bins |-> bins,
                                    xField |-> feature, yField |-> "count"]],
                       [kind |-> "distribution", feature |-> feature,
                        row_count |-> Len(series),
                        min |-> 100 * SeqMin(series), max |-> 100 * SeqMax(series),
                        mean |-> Mean100(series), median |-> Median100(series)])

(* ---------------------------------------------------------------------- *)
(* outcome_breakdown_playbook                                               *)
(* ---------------------------------------------------------------------- *)
outcome_breakdown_playbook(f, outcome_in) ==
    LET found == FirstNamed(f.columns, {"outcome", "target", "label", "y"})
        outcome == IF Falsy(outcome_in) \/ ~HasCol(f, outcome_in)
                   THEN (IF found # None THEN found ELSE outcome_in)
                   ELSE outcome_in
    IN  IF outcome_in = Unhashable THEN Raise("TypeError")   \* outcome not in df.columns
        ELSE IF Falsy(outcome) \/ ~HasCol(f, outcome)
        THEN Return(EmptyTable(<<>>, <<"No outcome/target column found for breakdown">>),
                    [kind |-> "outcome_breakdown", reason |-> "no_outcome"])
        ELSE
        LET counts == CountsByCategory(f.data[outcome])
            total == SeqSum([k \in 1..Len(counts) |-> counts[k].count])
            labels == [k \in 1..Len(counts) |-> Str(counts[k].value)]
            values == [k \in 1..Len(counts) |-> counts[k].count]
            percentages == [k \in 1..Len(counts) |->
                              <<labels[k], IF total # 0 THEN RoundDiv(1000 * values[k], total) ELSE 0>>]
        IN  Return([type |-> "pie",
                    data |-> [labels |-> labels, values |-> values],
                    config |-> [title |-> <<"Outcome breakdown for ", outcome>>]],
                   [kind |-> "outcome_breakdown", outcome |-> outcome,
                    counts |-> [k \in 1..Len(counts) |-> <<labels[k], values[k]>>],
                    percentages |-> percentages])

(* ---------------------------------------------------------------------- *)
(* segment_comparison_playbook                                              *)
(* ---------------------------------------------------------------------- *)
\* the mean of outcome over seg_df = df[df[segment_column] == seg], rounded
\* to 3 decimals, times 1000: 0.0 for an empty seg_df, NaN when no row of
\* the segment has an outcome value
SegmentMean(f, segment_column, seg, outcome) ==
    LET seg_rows == SelectIdx(f.nrows, LAMBDA i : f.data[segment_column][i] = Cell(seg))
        idx == SelectIdx(f.nrows,
                 LAMBDA i : f.data[segment_column][i] = Cell(seg)
                            /\ ~IsNull(f.data[outcome][i]))
        vals == [k \in 1..Len(idx) |-> Val(f.data[outcome][idx[k]])]
    IN  IF seg_rows = <<>> THEN Cell(0)
        ELSE IF vals = <<>> THEN NaN
        ELSE Cell(RoundDiv(1000 * SeqSum(vals), Len(vals)))

segment_comparison_playbook(f, segment_in, outcome) ==
    LET segment_column == IF segment_in = None \/ ~HasCol(f, segment_in)
                          THEN FirstSegmentColumn(f, segment_in)
                          ELSE segment_in
    IN  IF segment_in = Unhashable
        THEN Raise("TypeError")   \* segment_column not in df.columns
        ELSE IF segment_column = None \/ ~HasCol(f, segment_column)
        THEN Return(EmptyTable(<<>>, <<"No suitable segment column found to compare cohorts">>),
                    [kind |-> "segment_comparison", reason |-> "no_segment_column"])
        ELSE
        LET counts == Head_n(value_counts(f.data[segment_column]), 2)
        IN  IF Len(counts) < 2
            THEN Return(EmptyTable(<<segment_column>>, <<"Not enough segments to compare">>),
                        [kind |-> "segment_comparison", segment_column |-> segment_column,
                         reason |-> "single_segment_only"])
            ELSE IF outcome = Unhashable
            THEN Raise("TypeError")   \* outcome in df.columns
            ELSE
            LET segments == [k \in 1..Len(counts) |-> counts[k].value]
                use_mean == ~Falsy(outcome) /\ HasCol(f, outcome) /\ is_numeric_dtype(f, outcome)
                metric_name == IF use_mean THEN <<"Average ", outcome>> ELSE <<"Row count">>
                segment_values ==
                    IF use_mean
                    THEN [k \in 1..Len(segments) |->
                            SegmentMean(f, segment_column, segments[k], outcome)]
                    ELSE [k \in 1..Len(counts) |-> Cell(counts[k].count)]
                labels == [k \in 1..Len(segments) |-> Str(segments[k])]
            IN  Return([type |-> "bar",
                        data |-> [labels |-> labels, values |-> segment_values],
                        config |-> [title |-> <<metric_name, " by ", segment_column>>,
                                    xLabel |-> segment_column, yLabel |-> metric_name]],
                       [kind |-> "segment_comparison", segment_column |-> segment_column,
                        segments |-> labels, metric |-> metric_name,
                        values |-> segment_values])

(* ---------------------------------------------------------------------- *)
(* feature_outcome_profile_playbook                                         *)
(* ---------------------------------------------------------------------- *)
\* the q + 1 quantile edges of pd.qcut(xs, q), each times q: linear
\* interpolation between the order statistics at position i * (n - 1) / q
QuantileEdges(xs, q) ==
    LET s == SortAsc(xs)
        n == Len(s)
    IN  [e \in 1..(q + 1) |->
            LET lo == ((e - 1) * (n - 1)) \div q
                rem == ((e - 1) * (n - 1)) % q
            IN  IF rem = 0 THEN q * s[lo + 1]
                ELSE q * s[lo + 1] + rem * (s[lo + 2] - s[lo + 1])]

\* duplicates="drop": equal edges collapse, except when there are 2 edges
QcutBins(xs, q) ==
    LET edges == QuantileEdges(xs, q)
        unique_bins == Unique(edges)
    IN  IF Len(unique_bins) < Len(edges) /\ Len(edges) # 2 THEN unique_bins ELSE edges

\* bucket 1..Len(bins)-1 of x, or 0 for NaN: searchsorted(side="left") with
\* include_lowest, values on no interval are NaN
QcutId(bins, q, x) ==
    LET below == Cardinality({k \in 1..Len(bins) : bins[k] < q * x})
        id == IF q * x = bins[1] THEN 1 ELSE below
    IN  IF id = 0 \/ id = Len(bins) THEN 0 ELSE id

\* interval.left / interval.right of bucket k rounded to 2 decimals, times
\* 100: the edges are first rounded to 3 decimals, the lowest one moved down
\* by 0.001
QcutLabel(bins, q, k) ==
    LET Break(j) == RoundDiv(1000 * bins[j], q) - (IF j = 1 THEN 1 ELSE 0)
    IN  <<RoundDiv(Break(k), 10), RoundDiv(Break(k + 1), 10)>>

\* the means of all the buckets, 0 for a bucket without rows
BucketMeansOfAll(xs, ys, q, bins) ==
    LET Members(k) == SelectIdx(Len(xs), LAMBDA i : QcutId(bins, q, xs[i]) = k)
    IN  [k \in 1..(Len(bins) - 1) |->
            [label |-> QcutLabel(bins, q, k),
             value |-> IF Members(k) = <<>> THEN 0
                       ELSE RoundDiv(1000 * SeqSum([t \in 1..Len(Members(k)) |-> ys[Members(k)[t]]]),
                                     Len(Members(k)))]]

\* outcome_series.groupby(quantiles).mean() without the NaN means:
\* [label, value] per bucket that has rows, value rounded to 3 decimals
BucketMeans(xs, ys, q, bins) ==
    LET Members(k) == SelectIdx(Len(xs), LAMBDA i : QcutId(bins, q, xs[i]) = k)
        idx == SelectIdx(Len(bins) - 1, LAMBDA k : Members(k) # <<>>)
    IN  [j \in 1..Len(idx) |->
            LET m == Members(idx[j])
            IN  [label |-> QcutLabel(bins, q, idx[j]),
                 value |-> RoundDiv(1000 * SeqSum([t \in 1..Len(m) |-> ys[m[t]]]), Len(m))]]

ProfileBuckets(xs, ys, q) == BucketMeans(xs, ys, q, QcutBins(xs, q))

\* the line chart over the buckets and its context
ProfileChart(feature, outcome, grouped) ==
    LET labels == [k \in 1..Len(grouped) |-> grouped[k].label]
        values == [k \in 1..Len(grouped) |-> grouped[k].value]
    IN  Return([type |-> "line",
                data |-> [x |-> labels, y |-> values],
                config |-> [title |-> <<"Outcome rate by ", feature, " range">>,
                            xLabel |-> <<feature, " range">>,
                            yLabel |-> <<"Average ", outcome>>,
                            mark |-> "line",
                            xField |-> <<feature, "_binned">>,
                            yField |-> <<"avg_", outcome>>]],
               [kind |-> "feature_outcome_profile", feature |-> feature,
                outcome |-> outcome, bins |-> labels, values |-> values])

\* the profile of the rows that have both values
ProfileOfSeries(feature, outcome, feature_series, outcome_series, bins) ==
    IF feature_series = <<>> \/ outcome_series = <<>>
    THEN Return(EmptyTable(<<feature>>,
                           <<"No valid data to profile ", feature, " against ", outcome>>),
                [kind |-> "feature_outcome_profile", feature |-> feature,
                 outcome |-> outcome, reason |-> "no_valid_values"])
    ELSE IF bins = 0 - 1   \* np.linspace(0, 1, 0) is empty: bins[0] of no edges
    THEN Raise("IndexError")
    ELSE IF bins < 0   \* np.linspace raises ValueError, caught
    THEN Return(EmptyTable(<<feature>>,
                           <<"Not enough variation in ", feature, " to build a profile">>),
                [kind |-> "feature_outcome_profile", feature |-> feature,
                 outcome |-> outcome, reason |-> "low_variation"])
    ELSE ProfileChart(feature, outcome,
                      IF bins = 0 THEN <<>>
                      ELSE ProfileBuckets(feature_series, outcome_series, bins))

\* sub = df[[feature, outcome]].dropna() and the profile of its two series
ProfileOfRows(f, feature, outcome, mask, bins) ==
    ProfileOfSeries(feature, outcome,
                    [k \in 1..Len(mask) |-> Val(f.data[feature][mask[k]])],
                    [k \in 1..Len(mask) |-> Val(f.data[outcome][mask[k]])], bins)

\* the profile of a feature against an outcome, both resolved
ProfileOf(f, feature, outcome, bins) ==
    IF Falsy(outcome) \/ ~HasCol(f, outcome) \/ ~is_numeric_dtype(f, outcome)
    THEN Return(EmptyTable(<<feature>>,
                           <<"Cannot profile ", feature, ": no numeric outcome found">>),
                [kind |-> "feature_outcome_profile", feature |-> feature,
                 reason |-> "no_numeric_outcome"])
    ELSE ProfileOfRows(f, feature, outcome,
                       SelectIdx(f.nrows,
                          LAMBDA i : ~IsNull(f.data[feature][i]) /\ ~IsNull(f.data[outcome][i])),
                       bins)

feature_outcome_profile_playbook(f, feature_in, outcome_in, bins) ==
    LET num_df == select_dtypes_number(f)
    IN  IF FrameEmpty(num_df)
        THEN Return(EmptyTable(<<>>, <<"No numeric columns available for feature profile">>),
                    [kind |-> "feature_outcome_profile", reason |-> "no_numeric_columns"])
        ELSE IF feature_in = Unhashable \/ outcome_in = Unhashable
        THEN Raise("TypeError")   \* feature not in num_df.columns, outcome not in df.columns
        ELSE
        LET pick == FirstNamed(num_df.columns, {"age", "glucose", "bmi", "insulin"})
            fallback == Falsy(feature_in) \/ ~HasCol(num_df, feature_in)
            feature == IF fallback
                       THEN (IF ~Falsy(pick) THEN pick ELSE num_df.columns[1])
                       ELSE feature_in
            found == FirstNamed(f.columns, {"outcome", "target", "label", "y"})
            outcome == IF Falsy(outcome_in) \/ ~HasCol(f, outcome_in)
                       THEN (IF found # None THEN found ELSE outcome_in)
                       ELSE outcome_in
        IN  IF fallback /\ Falsy(pick) /\ Len(num_df.columns) = 0
            THEN Raise("IndexError")   \* num_df.columns[0] of no columns
            ELSE ProfileOf(f, feature, outcome, bins)

(* ---------------------------------------------------------------------- *)
(* relationship_playbook                                                    *)
(* ---------------------------------------------------------------------- *)
MinRelationshipPoints == 5

\* the guard with the point threshold off by one
TooFewPointsBelow4(x_values) == Len(x_values) < MinRelationshipPoints - 1

\* len(x_values) < 5
TooFewPoints(x_values) == Len(x_values) < MinRelationshipPoints

relationship_playbook(f, x_in, y_in) ==
    LET num_df == select_dtypes_number(f)
    IN  IF Len(num_df.columns) < 2
        THEN Return(EmptyTable(num_df.columns,
                               <<"Not enough numeric columns to show a relationship">>),
                    [kind |-> "relationship", reason |-> "insufficient_numeric_columns"])
        ELSE
        LET candidates == num_df.columns
            feature_x == IF Falsy(x_in) \/ x_in \notin Range(candidates)
                         THEN candidates[1] ELSE x_in
            feature_y == IF Falsy(y_in) \/ y_in \notin Range(candidates) \/ y_in = feature_x
                         THEN (IF Len(candidates) > 1 THEN candidates[2] ELSE candidates[1])
                         ELSE y_in
            mask == SelectIdx(f.nrows,
                      LAMBDA i : ~IsNull(f.data[feature_x][i]) /\ ~IsNull(f.data[feature_y][i]))
            x_values == [k \in 1..Len(mask) |-> Val(f.data[feature_x][mask[k]])]
            y_values == [k \in 1..Len(mask) |-> Val(f.data[feature_y][mask[k]])]
        IN  IF TooFewPoints(x_values)
            THEN Return(EmptyTable(<<feature_x, feature_y>>,
                                   <<"Not enough valid data points to show a relationship">>),
                        [kind |-> "relationship", feature_x |-> feature_x,
                         feature_y |-> feature_y, reason |-> "too_few_points"])
            ELSE
            LET corr == Pearson(x_values, y_values)
            IN  Return([type |-> "scatter",
                        data |-> [x |-> x_values, y |-> y_values],
                        config |-> [title |-> <<feature_y, " vs ", feature_x>>,
                                    xLabel |-> feature_x, yLabel |-> feature_y,
                                    mark |-> "point",
                                    xField |-> feature_x, yField |-> feature_y]],
                       [kind |-> "relationship", feature_x |-> feature_x,
                        feature_y |-> feature_y,
                        correlation |-> IF IsNull(corr) THEN NaN
                                        ELSE Cell(RoundCorr(Val(corr), 2000)),
                        point_count |-> Len(x_values)])

(* ---------------------------------------------------------------------- *)
(* segmented_distribution_playbook                                          *)
(* ---------------------------------------------------------------------- *)
\* df.groupby(segment_column)[feature]: per non-null segment value, in
\* ascending order, the non-null feature values of its rows
GroupValues(f, segment_column, feature) ==
    LET keys == SortAsc(Unique(NonNull(f.data[segment_column])))
    IN  [g \in 1..Len(keys) |->
            LET idx == SelectIdx(f.nrows,
                         LAMBDA i : f.data[segment_column][i] = Cell(keys[g])
                                    /\ ~IsNull(f.data[feature][i]))
            IN  [segment |-> keys[g],
                 vals |-> [k \in 1..Len(idx) |-> Val(f.data[feature][idx[k]])]]]

\* the bar chart of the segment means and its context, for the segments
\* kept: those with feature values
SegmentChart(feature, segment_column, grouped, kept) ==
    LET labels == [k \in 1..Len(kept) |-> Str(grouped[kept[k]].segment)]
        values == [k \in 1..Len(kept) |-> Mean100(grouped[kept[k]].vals)]
        summaries == [k \in 1..Len(kept) |->
                        LET v == grouped[kept[k]].vals
                        IN  [segment |-> Str(grouped[kept[k]].segment),
                             count |-> Len(v), mean |-> Mean100(v),
                             median |-> Median100(v),
                             min |-> 100 * SeqMin(v), max |-> 100 * SeqMax(v)]]
    IN  IF kept = <<>>
        THEN Return(EmptyTable(<<segment_column, feature>>,
                               <<"No valid ", feature, " values for segmented distribution">>),
                    [kind |-> "segmented_distribution", feature |-> feature,
                     segment_column |-> segment_column, reason |-> "no_valid_values"])
        ELSE Return([type |-> "bar",
                     data |-> [labels |-> labels, values |-> values],
                     config |-> [title |-> <<"Average ", feature, " by ", segment_column>>,
                                 xLabel |-> segment_column,
                                 yLabel |-> <<"Average ", feature>>,
                                 mark |-> "bar", xField |-> segment_column,
                                 yField |-> <<"avg_", feature>>]],
                    [kind |-> "segmented_distribution", feature |-> feature,
                     segment_column |-> segment_column, segments |-> labels,
                     segment_means |-> [k \in 1..Len(labels) |-> <<labels[k], values[k]>>],
                     segment_summaries |-> summaries])

\* the segments kept are those with two feature values or more
SegmentsOfRepeated(feature, segment_column, grouped) ==
    SegmentChart(feature, segment_column, grouped,
                 SelectIdx(Len(grouped), LAMBDA g : Len(grouped[g].vals) >= 2))

\* means = grouped.mean().dropna(), and the loop over the groups that
\* skips the empty ones
SegmentsOf(feature, segment_column, grouped) ==
    SegmentChart(feature, segment_column, grouped,
                 SelectIdx(Len(grouped), LAMBDA g : grouped[g].vals # <<>>))

\* the segmented distribution of a feature over a segment column, both resolved
SegmentedOf(f, feature, segment_column) ==
    IF segment_column = None \/ ~HasCol(f, segment_column)
    THEN Return(EmptyTable(<<>>,
                           <<"No suitable segment column found for segmented distribution">>),
                [kind |-> "segmented_distribution", feature |-> feature,
                 reason |-> "no_segment_column"])
    ELSE SegmentsOf(feature, segment_column, GroupValues(f, segment_column, feature))

segmented_distribution_playbook(f, feature_in, segment_in) ==
    IF FrameEmpty(f)
    THEN Return(EmptyTable(<<>>, <<"No data available for segmented distribution">>),
                [kind |-> "segmented_distribution", reason |-> "empty_dataframe"])
    ELSE
    LET num_df == select_dtypes_number(f)
    IN  IF FrameEmpty(num_df)
        THEN Return(EmptyTable(<<>>, <<"No numeric columns available for segmented distribution">>),
                    [kind |-> "segmented_distribution", reason |-> "no_numeric_columns"])
        ELSE IF feature_in = Unhashable \/ segment_in = Unhashable
        THEN Raise("TypeError")   \* feature not in num_df.columns, segment_column not in df.columns
        ELSE
        LET pick == FirstNamed(num_df.columns, {"age", "glucose", "bmi", "insulin"})
            fallback == Falsy(feature_in) \/ ~HasCol(num_df, feature_in)
            feature == IF fallback
                       THEN (IF ~Falsy(pick) THEN pick ELSE num_df.columns[1])
                       ELSE feature_in
            segment_column == IF segment_in = None \/ ~HasCol(f, segment_in)
                              THEN FirstSegmentColumn(f, segment_in)
                              ELSE segment_in
        IN  IF fallback /\ Falsy(pick) /\ Len(num_df.columns) = 0
            THEN Raise("IndexError")   \* num_df.columns[0] of no columns
            ELSE SegmentedOf(f, feature, segment_column)

(* ---------------------------------------------------------------------- *)
(* The engine as a state machine: a row set arrives, one playbook is called *)
(* on it with some parameters, and its result (or exception) is recorded.   *)
(* ---------------------------------------------------------------------- *)
\* column-name arguments: absent, empty, not a column, or a column
ColumnArgs(f) == {None, "nope"} \cup Range(f.columns)

TopNs == {1, 2, 5}
BinCounts == {1, 3, 5}
\* numbers of quantile buckets, one of them negative
ProfileBins == {0 - 2, 2, 4}

NoCall == [playbook |-> "none"]
NoResult == [raised |-> FALSE]

Init ==
    /\ df \in Frames
    /\ call = NoCall
    /\ result = NoResult
    /\ pc = "ready"

Finish(c, r) ==
    /\ pc = "ready"
    /\ call' = c
    /\ result' = r
    /\ pc' = "done"
    /\ UNCHANGED df

CallOverview ==
    Finish([playbook |-> "overview"], overview_playbook(df))

CallCorrelation ==
    \E outcome \in ColumnArgs(df) \ {None}, top_n \in TopNs :
        Finish([playbook |-> "correlation", outcome |-> outcome, top_n |-> top_n],
               correlation_playbook(df, outcome, top_n))

CallDistribution ==
    \E feature \in ColumnArgs(df), bins \in BinCounts :
        Finish([playbook |-> "distribution", feature |-> feature, bins |-> bins],
               distribution_playbook(df, feature, bins))

CallOutcomeBreakdown ==
    \E outcome \in ColumnArgs(df) :
        Finish([playbook |-> "outcome_breakdown", outcome |-> outcome],
               outcome_breakdown_playbook(df, outcome))

CallSegmentComparison ==
    \E segment_column \in ColumnArgs(df), outcome \in ColumnArgs(df) :
        Finish([playbook |-> "segment_comparison", segment_column |-> segment_column,
                outcome |-> outcome],
               segment_comparison_playbook(df, segment_column, outcome))

CallFeatureOutcomeProfile ==
    \E feature \in ColumnArgs(df), outcome \in ColumnArgs(df), bins \in ProfileBins :
        Finish([playbook |-> "feature_outcome_profile", feature |-> feature,
                outcome |-> outcome, bins |-> bins],
               feature_outcome_profile_playbook(df, feature, outcome, bins))

CallRelationship ==
    \E feature_x \in ColumnArgs(df), feature_y \in ColumnArgs(df) :
        Finish([playbook |-> "relationship", feature_x |-> feature_x, feature_y |-> feature_y],
               relationship_playbook(df, feature_x, feature_y))

CallSegmentedDistribution ==
    \E feature \in ColumnArgs(df), segment_column \in ColumnArgs(df) :
        Finish([playbook |-> "segmented_distribution", feature |-> feature,
                segment_column |-> segment_column],
               segmented_distribution_playbook(df, feature, segment_column))

Next ==
    \/ CallOverview
    \/ CallCorrelation
    \/ CallDistribution
    \/ CallOutcomeBreakdown
    \/ CallSegmentComparison
    \/ CallFeatureOutcomeProfile
    \/ CallRelationship
    \/ CallSegmentedDistribution

Spec == Init /\ [][Next]_vars

(* ---------------------------------------------------------------------- *)
(* Vocabulary of the properties                                             *)
(* ---------------------------------------------------------------------- *)
Called(p) == pc = "done" /\ call.playbook = p
Ctx == result.analysis_context
Viz == result.visualization
HasReason == "reason" \in DOMAIN Ctx
Reason(r) == HasReason /\ Ctx.reason = r
IsEmptyTable == Viz.type = "table" /\ Viz.data.rows = <<>>

\* the visualization shows at least one row, bar, slice or point
HasData ==
    CASE Viz.type = "table" -> Viz.data.rows # <<>>
      [] Viz.type \in {"bar", "pie", "histogram"} -> Viz.data.labels # <<>>
      [] Viz.type \in {"line", "scatter"} -> Viz.data.x # <<>>

\* the int / float columns of the row set, in column order
NumericColumns(f) == SelectSeq(f.columns, LAMBDA c : f.dtypes[c] = "number")

\* the rows of the row set that have a value in every numeric column
CompleteRows(f) ==
    {i \in 1..f.nrows : \A c \in Range(NumericColumns(f)) : ~IsNull(f.data[c][i])}

\* the rows of the row set that have a value in both columns
PairedRows(f, cx, cy) ==
    {i \in 1..f.nrows : ~IsNull(f.data[cx][i]) /\ ~IsNull(f.data[cy][i])}

\* the values of column c on the rows of the set rows, by ascending row
ValuesOn(f, c, rows) ==
    LET idx == SelectIdx(f.nrows, LAMBDA i : i \in rows)
    IN  [k \in 1..Len(idx) |-> Val(f.data[c][idx[k]])]

\* Pearson correlation of column c with the outcome over the complete rows
TrueCorr(f, c, outcome) ==
    Pearson(ValuesOn(f, c, CompleteRows(f)), ValuesOn(f, outcome, CompleteRows(f)))

\* the distinct non-null values of a column and how often each occurs
Distinct(col) == {Val(col[i]) : i \in {j \in 1..Len(col) : ~IsNull(col[j])}}
Freq(col, v) == Cardinality({i \in 1..Len(col) : col[i] = Cell(v)})

\* the first column, in column order, whose lower-cased name is in names
FirstMatch(cols, names) ==
    LET hits == {k \in 1..Len(cols) : Lower(cols[k]) \in names}
    IN  IF hits = {} THEN None
        ELSE cols[CHOOSE k \in hits : \A j \in hits : k <= j]

Min2(a, b) == IF a < b THEN a ELSE b
Abs(x) == IF x < 0 THEN 0 - x ELSE x

(* ---------------------------------------------------------------------- *)
(* Properties                                                               *)
(* ---------------------------------------------------------------------- *)

\* C1: each of the 8 playbooks, on every row set (zero rows, zero columns,
\* zero numeric columns, all-null columns) and with every column argument
\* (absent, or not a column of the row set), returns a result with a
\* visualization and an analysis_context and never raises.
C1_NeverRaises ==
    pc = "done" =>
        /\ ~result.raised
        /\ {"visualization", "analysis_context"} \subseteq DOMAIN result

\* a playbook that needs a numeric column was called with a column argument
\* that is no column, on a row set with rows and no numeric column
C1_Witness ==
    /\ pc = "done"
    /\ call.playbook \in {"distribution", "feature_outcome_profile", "segmented_distribution"}
    /\ call.feature = "nope"
    /\ df.nrows > 0
    /\ Len(df.columns) > 0
    /\ NumericColumns(df) = <<>>
    /\ ~result.raised
    /\ Reason("no_numeric_columns")

\* C2: in every result analysis_context.kind is the name of the playbook
\* called; analysis_context has a reason code if and only if the playbook
\* could not produce a meaningful result (the overview always produces its
\* summary; any other playbook produces one when its chart shows data); and
\* with a reason code the visualization is a table with no rows.
C2_ReasonIffNoResult ==
    (pc = "done" /\ ~result.raised) =>
        /\ Ctx.kind = call.playbook
        /\ HasReason <=> ~(call.playbook = "overview" \/ HasData)
        /\ HasReason => IsEmptyTable

\* C3: a bar chart of correlation_playbook has at most top_n labels: the
\* numeric columns other than the outcome with the largest absolute Pearson
\* correlation to the outcome, by descending absolute correlation, each
\* value the signed correlation rounded to 2 decimals, and
\* top_correlations maps these labels to these values.
C3_TopCorrelations ==
    (Called("correlation") /\ ~result.raised /\ Viz.type = "bar") =>
        LET labels == Viz.data.labels
            values == Viz.data.values
            others == {c \in Range(NumericColumns(df)) \ {call.outcome} :
                          ~IsNull(TrueCorr(df, c, call.outcome))}
            R(c) == Val(TrueCorr(df, c, call.outcome))
        IN  /\ Len(labels) <= call.top_n
            /\ Len(values) = Len(labels)
            /\ Len(labels) = Min2(call.top_n, Cardinality(others))
            /\ \A k \in 1..Len(labels) : labels[k] \in others
            /\ \A j, k \in 1..Len(labels) :
                  j < k => labels[j] # labels[k] /\ ~AbsGreater(R(labels[k]), R(labels[j]))
            /\ \A c \in others \ Range(labels) : \A k \in 1..Len(labels) :
                  ~AbsGreater(R(c), R(labels[k]))
            /\ \A k \in 1..Len(labels) :
                  /\ Abs(values[k]) = RoundRoot(R(labels[k]).p, R(labels[k]).q, 200)
                  /\ R(labels[k]).sgn < 0 => values[k] <= 0
                  /\ R(labels[k]).sgn > 0 => values[k] >= 0
            /\ Ctx.top_correlations = [k \in 1..Len(labels) |-> <<labels[k], values[k]>>]

\* the chart was cut to top_n labels, and the strongest correlation, listed
\* first, is a negative one
C3_Witness ==
    /\ Called("correlation")
    /\ ~result.raised
    /\ Viz.type = "bar"
    /\ Len(Viz.data.labels) = call.top_n
    /\ Cardinality({c \in Range(NumericColumns(df)) \ {call.outcome} :
                       ~IsNull(TrueCorr(df, c, call.outcome))}) > call.top_n
    /\ Viz.data.values[1] < 0

\* C4: correlation_playbook returns reason "insufficient_data" with an empty
\* table exactly when the outcome is not a numeric column of the row set or
\* fewer than 5 rows have a value in every numeric column; it then names no
\* other outcome and reports no correlation.
C4_InsufficientData ==
    (Called("correlation") /\ ~result.raised) =>
        LET insufficient == \/ call.outcome \notin Range(NumericColumns(df))
                            \/ Cardinality(CompleteRows(df)) < 5
        IN  /\ Reason("insufficient_data") <=> insufficient
            /\ insufficient =>
                  /\ IsEmptyTable
                  /\ DOMAIN Viz.data = {"columns", "rows"}
                  /\ DOMAIN Ctx = {"kind", "reason"}

\* the outcome is a numeric column and the row set has 5 rows or more, but
\* only 4 of them are complete
C4_Witness ==
    /\ Called("correlation")
    /\ call.outcome \in Range(NumericColumns(df))
    /\ df.nrows >= 5
    /\ Cardinality(CompleteRows(df)) = 4
    /\ ~result.raised
    /\ Reason("insufficient_data")

\* C5: distribution_playbook(df, bins=N) returns exactly N histogram labels
\* and N counts when the selected feature has a non-null value, an empty
\* table with reason "no_valid_values" when it has none, and reason
\* "no_numeric_columns" when the row set has no numeric column.
C5_HistogramOrReason ==
    (Called("distribution") /\ ~result.raised) =>
        LET nc == NumericColumns(df)
            named == FirstMatch(nc, {"age", "score", "amount", "value", "glucose", "bmi"})
            feature == IF call.feature \in Range(nc) THEN call.feature
                       ELSE IF named # None THEN named ELSE nc[1]
        IN  IF nc = <<>> THEN Reason("no_numeric_columns") /\ IsEmptyTable
            ELSE IF Distinct(df.data[feature]) # {}
            THEN /\ Viz.type = "histogram"
                 /\ Len(Viz.data.labels) = call.bins
                 /\ Len(Viz.data.values) = call.bins
            ELSE Reason("no_valid_values") /\ IsEmptyTable

\* C6: segment_comparison_playbook returns exactly 2 labels and 2 values,
\* for the two most frequent non-null values of the chosen segment column,
\* when that column has 2 or more distinct non-null values, and reason
\* "single_segment_only" when it has fewer; it returns "no_segment_column"
\* only when no segment column was given nor found among the columns with
\* 2 to 6 distinct values.
C6_TwoSegments ==
    (Called("segment_comparison") /\ ~result.raised) =>
        LET given == call.segment_column
            found == {k \in 1..Len(df.columns) :
                         Cardinality(Distinct(df.data[df.columns[k]])) \in 2..6}
            chosen == IF given # None /\ given \in Range(df.columns) THEN given
                      ELSE IF found = {} THEN None
                      ELSE df.columns[CHOOSE k \in found : \A j \in found : k <= j]
        IN  IF chosen = None THEN Reason("no_segment_column")
            ELSE LET col == df.data[chosen]
                 IN  IF Cardinality(Distinct(col)) >= 2
                     THEN /\ Viz.type = "bar"
                          /\ Len(Viz.data.labels) = 2
                          /\ Len(Viz.data.values) = 2
                          /\ \E v1, v2 \in Distinct(col) :
                                /\ v1 # v2
                                /\ Viz.data.labels = <<Str(v1), Str(v2)>>
                                /\ \A w \in Distinct(col) \ {v1, v2} :
                                      Freq(col, w) <= Freq(col, v1) /\ Freq(col, w) <= Freq(col, v2)
                     ELSE Reason("single_segment_only")

\* the segment column has 3 distinct values and the value that appears first
\* is the least frequent one, left out of the 2 bars
C6_Witness ==
    /\ Called("segment_comparison")
    /\ ~result.raised
    /\ Viz.type = "bar"
    /\ Cardinality(Distinct(df.data[Ctx.segment_column])) = 3
    /\ ~IsNull(df.data[Ctx.segment_column][1])
    /\ Str(Val(df.data[Ctx.segment_column][1])) \notin Range(Viz.data.labels)
    /\ \A w \in Distinct(df.data[Ctx.segment_column]) :
          w # Val(df.data[Ctx.segment_column][1]) =>
              Freq(df.data[Ctx.segment_column], w)
                > Freq(df.data[Ctx.segment_column], Val(df.data[Ctx.segment_column][1]))

\* C7: relationship_playbook returns reason "too_few_points" whenever fewer
\* than 5 rows have a value in both selected columns, then with no
\* correlation in analysis_context and no points in the visualization; with
\* 5 paired rows or more it returns a scatter plot whose x and y lists both
\* have point_count elements.
C7_TooFewPoints ==
    (Called("relationship") /\ ~result.raised /\ Len(NumericColumns(df)) >= 2) =>
        LET paired == Cardinality(PairedRows(df, Ctx.feature_x, Ctx.feature_y))
        IN  IF paired < 5
            THEN /\ Reason("too_few_points")
                 /\ "correlation" \notin DOMAIN Ctx
                 /\ IsEmptyTable
                 /\ DOMAIN Viz.data = {"columns", "rows"}
            ELSE /\ ~HasReason
                 /\ Viz.type = "scatter"
                 /\ Len(Viz.data.x) = paired
                 /\ Len(Viz.data.y) = paired
                 /\ Ctx.point_count = paired

\* the row set has 5 rows or more but only 4 of them are paired
C7_Witness ==
    /\ Called("relationship")
    /\ ~result.raised
    /\ Len(NumericColumns(df)) >= 2
    /\ df.nrows >= 5
    /\ Reason("too_few_points")
    /\ Cardinality(PairedRows(df, Ctx.feature_x, Ctx.feature_y)) = 4

\* C8: in relationship_playbook, on every row set with 2 numeric columns or
\* more and for every feature_x / feature_y (absent, invalid, valid, equal),
\* the column used for y differs from the column used for x.
C8_DistinctXY ==
    (Called("relationship") /\ ~result.raised /\ Len(NumericColumns(df)) >= 2) =>
        Ctx.feature_y # Ctx.feature_x

\* C9 as stated: when the outcome argument is absent or no column, the first
\* column whose lower-cased name is outcome / target / label / y is used, and
\* the reason is "no_outcome" if there is none; with an outcome column the
\* result is a pie chart whose values sum to the number of rows.
C9_SumIsRowCount ==
    (Called("outcome_breakdown") /\ ~result.raised) =>
        LET outcome == IF call.outcome \in Range(df.columns) THEN call.outcome
                       ELSE FirstMatch(df.columns, {"outcome", "target", "label", "y"})
        IN  IF outcome = None THEN Reason("no_outcome") /\ IsEmptyTable
            ELSE /\ Viz.type = "pie"
                 /\ Ctx.outcome = outcome
                 /\ SeqSum(Viz.data.values) = df.nrows

\* C9 amended: the same resolution of the outcome column; the values of the
\* pie chart sum to the number of rows that have a value in that column.
C9_SumIsNonNullCount ==
    (Called("outcome_breakdown") /\ ~result.raised) =>
        LET outcome == IF call.outcome \in Range(df.columns) THEN call.outcome
                       ELSE FirstMatch(df.columns, {"outcome", "target", "label", "y"})
        IN  IF outcome = None THEN Reason("no_outcome") /\ IsEmptyTable
            ELSE /\ Viz.type = "pie"
                 /\ Ctx.outcome = outcome
                 /\ SeqSum(Viz.data.values)
                      = Cardinality({i \in 1..df.nrows : ~IsNull(df.data[outcome][i])})

\* the outcome column was found by its name and some, not all, of its rows
\* are null
C9_Witness ==
    /\ Called("outcome_breakdown")
    /\ ~result.raised
    /\ call.outcome \notin Range(df.columns)
    /\ Viz.type = "pie"
    /\ SeqSum(Viz.data.values) > 0
    /\ SeqSum(Viz.data.values) < df.nrows

\* C10: overview_playbook returns for every row set a table with one row per
\* numeric column, in column order and the same columns as numeric_features,
\* row_count the number of rows and column_count the number of columns; on
\* a row set with zero rows every missing-percentage is 0.0.
C10_OneRowPerNumericColumn ==
    (Called("overview") /\ ~result.raised) =>
        LET nc == NumericColumns(df)
            rows == Viz.data.rows
        IN  /\ Viz.type = "table"
            /\ Ctx.row_count = df.nrows
            /\ Ctx.column_count = Len(df.columns)
            /\ Ctx.numeric_features = nc
            /\ Len(rows) = Len(nc)
            /\ \A k \in 1..Len(rows) : rows[k].Feature = nc[k]
            /\ df.nrows = 0 => \A k \in 1..Len(rows) : rows[k].Missing = 0

(* ---------------------------------------------------------------------- *)
(* Planner responses (query_service.py).  A JSON scalar is [t, v] with t   *)
(* its type and v an integer: the value of an int, ten times the value of  *)
(* a float, 0 / 1 for a bool, the code of a string; NaN is a float that    *)
(* int() rejects.  Names (playbook, columns) are strings, with None for    *)
(* null, Absent for a key the response does not have and Unhashable for a  *)
(* list in the place of a name.                                            *)
(* ---------------------------------------------------------------------- *)
Absent == "<absent>"

J(t, v) == [t |-> t, v |-> v]
JNull == J("null", 0)

\* isinstance(x, (int, float)): a bool is an int, NaN is a float
IsIntOrFloat(j) == j.t \in {"int", "float", "bool", "nan"}

\* int(x): truncation toward zero
PyInt(j) ==
    IF j.t = "float"
    THEN (IF j.v >= 0 THEN j.v \div 10 ELSE 0 - ((0 - j.v) \div 10))
    ELSE j.v

\* dict.get(key, default) of a name
Get(d, key, default) == IF d[key] = Absent THEN default ELSE d[key]

\* dict.get(key) of a JSON value: None for an absent key
GetJ(d, key) == IF d[key].t = "absent" THEN [d[key] EXCEPT !.t = "null"] ELSE d[key]

\* the value of a successful call that returns no playbook result
Ok(v) == [raised |-> FALSE, value |-> v]

allowed_playbooks ==
    {"overview", "correlation", "distribution", "segment_comparison", "outcome_breakdown",
     "feature_outcome_profile", "relationship", "segmented_distribution"}

candidate_names == {"outcome", "target", "label", "y"}

TopNMin == 3
TopNMax == 50
BinsMin == 5
BinsMax == 50

\* int(x) for a number without the limits, None for anything else
Unclamped(j, lo, hi) ==
    IF IsIntOrFloat(j) THEN J("int", PyInt(j)) ELSE JNull

\* max(lo, min(int(x), hi)) for a number, None for anything else
Clamp(j, lo, hi) ==
    IF IsIntOrFloat(j)
    THEN LET n == PyInt(j)
             m == IF n < hi THEN n ELSE hi
         IN  J("int", IF lo > m THEN lo ELSE m)
    ELSE JNull

\* the column type PRAGMA table_info reports for a column of the dataset
sql_type(dtype) ==
    CASE dtype = "number" -> "REAL"
      [] dtype = "bool" -> "INTEGER"
      [] OTHER -> "TEXT"

\* [p for p in secondary_playbooks
\*    if isinstance(p, str) and p in allowed_playbooks and p != playbook]
NormalizeSecondary(secondary_playbooks, playbook) ==
    SelectSeq(secondary_playbooks,
              LAMBDA p : p \notin {None, Unhashable} /\ p \in allowed_playbooks /\ p # playbook)

\* QueryService.select_analysis on the planner's response; schema is the
\* column list of the dataset's table, mentions the lower-cased column
\* names that occur in the user's question
select_analysis(response, schema, mentions) ==
    IF response.t # "dict"
    THEN Ok([playbook |-> "overview", target |-> None, mode |-> "quick"])
    ELSE
    LET r == response.v
        playbook0 == Get(r, "playbook", "overview")
        playbook == IF playbook0 \notin allowed_playbooks THEN "overview" ELSE playbook0
        target0 == Get(r, "target", None)
        found == FirstNamed([k \in 1..Len(schema) |-> schema[k].name], candidate_names)
        target1 == IF playbook \in {"correlation", "outcome_breakdown"} /\ Falsy(target0)
                      /\ found # None
                   THEN found ELSE target0
        mentioned_columns == SelectSeq([k \in 1..Len(schema) |-> schema[k].name],
                                       LAMBDA c : Lower(c) \in mentions)
        non_outcome_mentions == SelectSeq(mentioned_columns,
                                          LAMBDA c : Lower(c) \notin candidate_names)
        retarget == playbook = "correlation" /\ non_outcome_mentions # <<>>
        target == IF retarget /\ (Falsy(target1) \/ Lower(target1) \in candidate_names)
                  THEN non_outcome_mentions[1] ELSE target1
        numeric_columns == {schema[k].name : k \in {j \in 1..Len(schema) : schema[j].type = "number"}}
        numeric_mentions == SelectSeq(mentioned_columns, LAMBDA c : c \in numeric_columns)
        prefer == playbook = "relationship" /\ Len(numeric_mentions) >= 2
        feature_x0 == Get(r, "feature_x", None)
        feature_y0 == Get(r, "feature_y", None)
        top_n == GetJ(r, "top_n")
        bins == GetJ(r, "bins")
        secondary0 == GetJ(r, "secondary_playbooks")
        secondary_playbooks == IF secondary0.t = "list" THEN secondary0.v ELSE <<>>
    IN  IF playbook0 = Unhashable
        THEN Raise("TypeError")        \* playbook not in allowed_playbooks
        ELSE IF retarget /\ target1 = Unhashable
        THEN Raise("AttributeError")   \* target.lower()
        ELSE IF top_n.t = "nan" \/ bins.t = "nan"
        THEN Raise("ValueError")       \* int(nan)
        ELSE Ok([playbook |-> playbook,
                 target |-> target,
                 feature |-> Get(r, "feature", None),
                 segment_column |-> Get(r, "segment_column", None),
                 feature_x |-> IF prefer /\ Falsy(feature_x0) THEN numeric_mentions[1] ELSE feature_x0,
                 feature_y |-> IF prefer /\ Falsy(feature_y0) THEN numeric_mentions[2] ELSE feature_y0,
                 top_n |-> Clamp(top_n, TopNMin, TopNMax),
                 bins |-> Clamp(bins, BinsMin, BinsMax),
                 filter_segment |-> GetJ(r, "filter_segment"),
                 focus_range |-> GetJ(r, "focus_range"),
                 secondary_playbooks |-> NormalizeSecondary(secondary_playbooks, playbook),
                 mode |-> Get(r, "mode", "quick")])

(* ---------------------------------------------------------------------- *)
(* execute_query (api/routes/query.py): filters, primary playbook,          *)
(* secondary playbooks, response                                            *)
(* ---------------------------------------------------------------------- *)
\* analysis_request.get(key): None for a key the request does not have
ReqGet(req, key, none) == IF key \in DOMAIN req THEN req[key] ELSE none

\* ten times the number a JSON number stands for
Tenths(j) == IF j.t = "float" THEN j.v ELSE 10 * j.v

\* one element of df[col] == value
CellEquals(dtype, c, value) ==
    IF IsNull(c) THEN FALSE
    ELSE CASE value.t = "str" -> dtype = "object" /\ Val(c) = value.v
           [] value.t \in {"int", "bool", "float"} -> dtype # "object" /\ 10 * Val(c) = Tenths(value)
           [] OTHER -> FALSE

\* one element of pd.to_numeric(df[col], errors="coerce").between(lo, hi):
\* a string that is no number is coerced to NaN, and NaN is in no range
CellBetween(dtype, c, lo, hi) ==
    IF IsNull(c) \/ dtype = "object" \/ lo.t = "nan" \/ hi.t = "nan" THEN FALSE
    ELSE Tenths(lo) <= 10 * Val(c) /\ 10 * Val(c) <= Tenths(hi)

\* the equality filter of filter_segment; the membership test of the
\* column is outside the try block
ApplyFilterSegment(f, filter_segment) ==
    IF filter_segment.t # "dict" THEN Ok(f)
    ELSE IF filter_segment.column = Unhashable THEN Raise("TypeError")
    ELSE IF ~HasCol(f, filter_segment.column) THEN Ok(f)
    ELSE LET col == filter_segment.column
         IN  Ok(TakeRows(f, SelectIdx(f.nrows,
                LAMBDA i : CellEquals(f.dtypes[col], f.data[col][i], filter_segment.value))))

\* the range filter of focus_range
ApplyFocusRange(f, focus_range) ==
    IF focus_range.t # "dict" THEN Ok(f)
    ELSE IF focus_range.feature = Unhashable THEN Raise("TypeError")
    ELSE IF ~HasCol(f, focus_range.feature)
            \/ ~IsIntOrFloat(focus_range.min) \/ ~IsIntOrFloat(focus_range.max)
    THEN Ok(f)
    ELSE LET col == focus_range.feature
         IN  Ok(TakeRows(f, SelectIdx(f.nrows,
                LAMBDA i : CellBetween(f.dtypes[col], f.data[col][i],
                                       focus_range.min, focus_range.max))))

DefaultTopN == 5
DefaultBins == 10
DefaultProfileBins == 8

\* target or "Outcome"
OrName(name, default) == IF Falsy(name) THEN default ELSE name

\* top_n or 5, bins or 10
OrInt(j, default) == IF j.t = "null" \/ j.v = 0 THEN default ELSE j.v

\* the keyword arguments the dispatcher takes from the analysis request
RequestArgs(req) ==
    [target |-> ReqGet(req, "target", None),
     feature |-> ReqGet(req, "feature", None),
     segment_column |-> ReqGet(req, "segment_column", None),
     feature_x |-> ReqGet(req, "feature_x", None),
     feature_y |-> ReqGet(req, "feature_y", None),
     top_n |-> ReqGet(req, "top_n", JNull),
     bins |-> ReqGet(req, "bins", JNull)]

\* the primary playbook: the if / elif chain on playbook_name
PrimaryPlay(playbook_name, f, a) ==
    CASE playbook_name = "correlation" ->
            correlation_playbook(f, OrName(a.target, "Outcome"), OrInt(a.top_n, DefaultTopN))
      [] playbook_name = "distribution" ->
            distribution_playbook(f, a.feature, OrInt(a.bins, DefaultBins))
      [] playbook_name = "segmented_distribution" ->
            segmented_distribution_playbook(f, a.feature, a.segment_column)
      [] playbook_name = "segment_comparison" ->
            segment_comparison_playbook(f, a.segment_column, a.target)
      [] playbook_name = "outcome_breakdown" ->
            outcome_breakdown_playbook(f, OrName(a.target, "Outcome"))
      [] playbook_name = "feature_outcome_profile" ->
            feature_outcome_profile_playbook(f, a.feature, OrName(a.target, "Outcome"),
                                             OrInt(a.bins, DefaultProfileBins))
      [] playbook_name = "relationship" ->
            relationship_playbook(f, a.feature_x, a.feature_y)
      [] OTHER -> overview_playbook(f)

\* the names the loop over secondary_playbooks has a branch for
SecondaryBranches ==
    {"correlation", "distribution", "segment_comparison", "outcome_breakdown",
     "feature_outcome_profile", "relationship", "segmented_distribution"}

\* a secondary playbook: the if / elif chain on secondary
SecondaryPlay(secondary, f, a) ==
    CASE secondary = "correlation" ->
            correlation_playbook(f, OrName(a.target, "Outcome"), OrInt(a.top_n, DefaultTopN))
      [] secondary = "distribution" ->
            distribution_playbook(f, a.feature, OrInt(a.bins, DefaultBins))
      [] secondary = "segment_comparison" ->
            segment_comparison_playbook(f, a.segment_column, a.target)
      [] secondary = "outcome_breakdown" ->
            outcome_breakdown_playbook(f, OrName(a.target, "Outcome"))
      [] secondary = "feature_outcome_profile" ->
            feature_outcome_profile_playbook(f, a.feature, OrName(a.target, "Outcome"),
                                             OrInt(a.bins, DefaultProfileBins))
      [] secondary = "relationship" ->
            relationship_playbook(f, a.feature_x, a.feature_y)
      [] secondary = "segmented_distribution" ->
            segmented_distribution_playbook(f, a.feature, a.segment_column)

\* the top_n and bins a playbook is called with (0 where it takes none)
PassedTopN(name, a) == IF name = "correlation" THEN OrInt(a.top_n, DefaultTopN) ELSE 0
PassedBins(name, a) ==
    CASE name = "distribution" -> OrInt(a.bins, DefaultBins)
      [] name = "feature_outcome_profile" -> OrInt(a.bins, DefaultProfileBins)
      [] OTHER -> 0

\* a secondary playbook that raises takes the whole request down
CollectedUncaught(extra_visualizations, secondary_play) ==
    IF secondary_play.raised
    THEN [extra_visualizations |-> extra_visualizations, escaped |-> TRUE]
    ELSE [extra_visualizations |-> Append(extra_visualizations, secondary_play.visualization),
          escaped |-> FALSE]

\* the try / except around one secondary playbook: its visualization is
\* appended, an exception is logged and does not escape
Collected(extra_visualizations, secondary_play) ==
    IF secondary_play.raised
    THEN [extra_visualizations |-> extra_visualizations, escaped |-> FALSE]
    ELSE [extra_visualizations |-> Append(extra_visualizations, secondary_play.visualization),
          escaped |-> FALSE]

\* one iteration of the loop over secondary_playbooks: a name without a
\* branch is passed over
SecondaryOutcome(extra_visualizations, secondary, f, a) ==
    IF secondary \notin SecondaryBranches
    THEN [extra_visualizations |-> extra_visualizations, escaped |-> FALSE]
    ELSE Collected(extra_visualizations, SecondaryPlay(secondary, f, a))

\* analysis_service.generate_insights(query, results, sql, merged_structure):
\* the call leaves out the required parameter visualization
generate_insights_call == Raise("TypeError")

\* the narrative used when generate_insights raises
FallbackAnalysis(playbook_name) ==
    [summary |-> <<"Analysis completed using playbook '", playbook_name, "'.">>,
     key_findings |-> <<>>, patterns |-> <<>>, recommendations |-> <<>>]

(* ---------------------------------------------------------------------- *)
(* Outcome of the profile and of the segmented distribution                 *)
(* ---------------------------------------------------------------------- *)
\* the outcome column the profile works with: the given one when it is a
\* column, otherwise the first column named like an outcome
ResolvedOutcome ==
    IF call.outcome \in Range(df.columns) THEN call.outcome
    ELSE FirstMatch(df.columns, {"outcome", "target", "label", "y"})

\* the feature values of the rows that have feature and outcome
PairedFeature(feature, outcome) ==
    ValuesOn(df, feature, PairedRows(df, feature, outcome))

\* the quantile buckets that hold at least one of the values
NonEmptyBuckets(xs, q) ==
    {QcutId(QcutBins(xs, q), q, xs[i]) : i \in 1..Len(xs)} \ {0}

SegmentsWithValues(segment_column, feature) ==
    {v \in Distinct(df.data[segment_column]) :
        \E i \in 1..df.nrows : df.data[segment_column][i] = Cell(v)
                               /\ ~IsNull(df.data[feature][i])}

\* C27: segmented_distribution_playbook, once it has chosen a segment
\* column, answers "no_valid_values" exactly when no segment has a non-null
\* feature value; otherwise the bar chart has one label per segment value
\* that has a non-null feature value, and segment_summaries has one entry
\* per label, in the order of the labels.
C27_SegmentsWithValues ==
    (Called("segmented_distribution") /\ ~result.raised /\ "segment_column" \in DOMAIN Ctx) =>
        LET segments == SegmentsWithValues(Ctx.segment_column, Ctx.feature)
        IN  /\ Reason("no_valid_values") <=> segments = {}
            /\ segments # {} =>
                  /\ ~HasReason
                  /\ Viz.type = "bar"
                  /\ Len(Viz.data.labels) = Cardinality(segments)
                  /\ Range(Viz.data.labels) = {Str(v) : v \in segments}
                  /\ Len(Viz.data.values) = Len(Viz.data.labels)
                  /\ Len(Ctx.segment_summaries) = Len(Viz.data.labels)
                  /\ \A k \in 1..Len(Viz.data.labels) :
                        Ctx.segment_summaries[k].segment = Viz.data.labels[k]

\* a segment column of three values, one of them on rows without a feature
\* value only or with a single one: fewer bars than segment values, each
\* with its summary
C27_Witness ==
    /\ Called("segmented_distribution")
    /\ ~result.raised
    /\ "segment_column" \in DOMAIN Ctx
    /\ Viz.type = "bar"
    /\ Cardinality(Distinct(df.data[Ctx.segment_column])) = 3
    /\ Len(Viz.data.labels) = 2
    /\ Len(Ctx.segment_summaries) = 2
    /\ \E k \in 1..2 : Ctx.segment_summaries[k].count = 1

(* ---------------------------------------------------------------------- *)
(* Requests: the rows fetched from the dataset and the planner's response   *)
(* ---------------------------------------------------------------------- *)
\* the table of the dataset: a segment column, a feature and an outcome
DatasetSchema ==
    <<Col("grp", "object", {"skew", "hole"}),
      Col("BMI", "number", {"asc", "gap", "const"}),
      Col("Outcome", "number", {"alt", "gap"})>>

\* schema_info["tables"][0]["columns"]
schema_info == [k \in 1..Len(DatasetSchema) |->
                  [name |-> DatasetSchema[k].name, type |-> sql_type(DatasetSchema[k].dtype)]]

\* pd.DataFrame(results): the frame of the fetched rows, without columns
\* when no row was fetched
FetchedFrames ==
    { MkFrame(DatasetSchema, pats, n) :
        pats \in {q \in [1..Len(DatasetSchema) -> Patterns] :
                    \A k \in 1..Len(DatasetSchema) : q[k] \in DatasetSchema[k].pats},
        n \in {MaxRows - 3, MaxRows} }
    \cup { MkFrame(<<>>, <<>>, 0) }

\* the lower-cased column names the user's question contains
Mentions == { {}, {"bmi", "outcome"} }

NoFilter == [t |-> "absent", column |-> None, value |-> JNull]
SegmentFilter(column, value) == [t |-> "dict", column |-> column, value |-> value]
NoRange == [t |-> "absent", feature |-> None, min |-> JNull, max |-> JNull]
FocusRange(feature, min, max) == [t |-> "dict", feature |-> feature, min |-> min, max |-> max]

\* a response without any key
EmptyResponse ==
    [playbook |-> Absent, target |-> Absent, feature |-> Absent, segment_column |-> Absent,
     feature_x |-> Absent, feature_y |-> Absent,
     top_n |-> J("absent", 0), bins |-> J("absent", 0),
     filter_segment |-> NoFilter, focus_range |-> NoRange,
     secondary_playbooks |-> J("absent", <<>>), mode |-> Absent]

\* a response that names the columns of the dataset
NamedResponse ==
    [EmptyResponse EXCEPT !.target = "Outcome", !.feature = "BMI", !.segment_column = "grp",
                          !.feature_x = "BMI", !.feature_y = "Outcome", !.mode = "deep"]

\* values of the key "playbook": the 8 names, an unknown name, null, no key, a list
PlaybookValues == allowed_playbooks \cup {"forecast", None, Absent, Unhashable}

\* values of the key "secondary_playbooks"
SecondaryValues ==
    { J("absent", <<>>),
      J("str", <<>>),
      J("list", <<"distribution", "correlation">>),
      J("list", <<"overview", "relationship", "forecast", None, Unhashable, "relationship">>),
      J("list", <<"correlation", "segmented_distribution", "outcome_breakdown",
                  "feature_outcome_profile", "segment_comparison">>) }

\* values of the keys "top_n" and "bins"
NumberValues ==
    { J("absent", 0), J("null", 0), J("str", 0), J("nan", 0), J("bool", 1),
      J("int", 0 - 1), J("int", 0), J("int", 3), J("int", 4), J("int", 7),
      J("int", 50), J("int", 51), J("float", 79), J("float", 25) }

\* values of the key "filter_segment"
FilterValues ==
    { NoFilter,
      [NoFilter EXCEPT !.t = "str"],
      SegmentFilter(None, J("int", 1)),
      SegmentFilter("nope", J("int", 1)),
      SegmentFilter(Unhashable, J("int", 1)),
      SegmentFilter("Outcome", J("int", 1)),
      SegmentFilter("Outcome", J("str", 1)),
      SegmentFilter("Outcome", J("int", 7)),
      SegmentFilter("grp", J("str", 2)),
      SegmentFilter("grp", J("null", 0)) }

\* values of the key "focus_range"
RangeValues ==
    { NoRange,
      [NoRange EXCEPT !.t = "str"],
      FocusRange("BMI", J("int", 2), J("int", 4)),
      FocusRange("BMI", J("str", 2), J("int", 4)),
      FocusRange("BMI", J("int", 2), J("null", 0)),
      FocusRange("BMI", J("int", 9), J("int", 2)),
      FocusRange("Outcome", J("float", 5), J("int", 1)),
      FocusRange("grp", J("int", 0), J("int", 5)),
      FocusRange("nope", J("int", 0), J("int", 5)),
      FocusRange(Unhashable, J("int", 0), J("int", 5)) }

\* the planner's responses: every playbook with every list of secondary
\* playbooks, lists in the place of column names, every number as top_n and
\* bins, every filter, and something that is no JSON object
Responses ==
    { J("list", EmptyResponse) }
    \cup { J("dict", [NamedResponse EXCEPT !.playbook = pb, !.secondary_playbooks = sec]) :
             pb \in PlaybookValues, sec \in SecondaryValues }
    \cup { J("dict", [EmptyResponse EXCEPT !.playbook = pb]) : pb \in PlaybookValues }
    \cup { J("dict", [EmptyResponse EXCEPT !.playbook = pb, !.target = tg, !.feature = ft,
                                           !.secondary_playbooks = sec]) :
             pb \in {"overview", "distribution", "relationship", "correlation"},
             tg \in {Unhashable, "BMI"}, ft \in {Absent, Unhashable},
             sec \in {s \in SecondaryValues : s.t = "list" /\ Len(s.v) # 6} }
    \cup { J("dict", [NamedResponse EXCEPT !.playbook = pb, !.top_n = n, !.bins = n,
                                           !.feature = Absent]) :
             pb \in {"correlation", "distribution", "feature_outcome_profile"},
             n \in NumberValues }
    \cup { J("dict", [EmptyResponse EXCEPT !.playbook = "distribution", !.filter_segment = fs,
                                           !.focus_range = fr]) :
             fs \in {NoFilter, SegmentFilter("Outcome", J("int", 1)), SegmentFilter("grp", J("str", 2))},
             fr \in RangeValues }
    \cup { J("dict", [EmptyResponse EXCEPT !.playbook = "distribution", !.filter_segment = fs]) :
             fs \in FilterValues }

(* ---------------------------------------------------------------------- *)
(* execute_query as a state machine: the planner's response is validated,  *)
(* the rows are fetched and filtered, the primary playbook runs, then one   *)
(* secondary playbook per step, then the response is built.  A request      *)
(* that raises ends with HTTP 500.                                          *)
(*   df     : the local DataFrame of execute_query                          *)
(*   call   : the request (planner response, question, fetched rows)        *)
(*   result : analysis_request, play, extra_visualizations, the secondary   *)
(*            playbooks still to run, the playbook calls made, the step a   *)
(*            failed request failed at, the response                        *)
(*   pc     : "plan", "fetch", "primary", "secondary", "done", "failed"     *)
(* ---------------------------------------------------------------------- *)
NoFrame == MkFrame(<<>>, <<>>, 0)

\* data_analysis_service.analyze_structure(results): a classification of
\* the rows, or {} when it raises
DataStructures(rows) == { <<>>, [row_count |-> rows.nrows, kind |-> "tabular"] }

InitDispatch ==
    /\ df = NoFrame
    /\ \E response \in Responses, results \in FetchedFrames :
         \E mentions \in (IF response.t = "dict"
                             /\ response.v.playbook \in {"correlation", "relationship"}
                          THEN Mentions ELSE {{}}) :
            call = [response |-> response, mentions |-> mentions, results |-> results]
    /\ result = [analysis_request |-> [playbook |-> Absent],
                 data_structure |-> <<>>,
                 play |-> NoResult,
                 extra_visualizations |-> <<>>,
                 rest |-> <<>>,
                 invoked |-> <<>>,
                 status |-> 0,
                 failed_at |-> "",
                 body |-> <<>>]
    /\ pc = "plan"

\* HTTPException(status_code=500)
Fail(detail) ==
    /\ pc' = "failed"
    /\ result' = [result EXCEPT !.status = 500, !.failed_at = pc, !.body = detail]

\* step 2: query_service.select_analysis
PlanAnalysis ==
    /\ pc = "plan"
    /\ LET r == select_analysis(call.response, schema_info, call.mentions)
       IN  IF r.raised
           THEN Fail(<<"Failed to plan analysis: ", r.error>>)
           ELSE /\ pc' = "fetch"
                /\ result' = [result EXCEPT !.analysis_request = r.value]
    /\ UNCHANGED <<df, call>>

\* steps 3 to 5: the rows are fetched (the LIMIT 500 of the overview query
\* keeps every row of these row sets), classified, and filtered
FetchAndFilter ==
    /\ pc = "fetch"
    /\ \E data_structure \in DataStructures(call.results) :
         LET req == result.analysis_request
             seg == ApplyFilterSegment(call.results,
                                       ReqGet(req, "filter_segment", [NoFilter EXCEPT !.t = "null"]))
             rng == ApplyFocusRange(seg.value,
                                    ReqGet(req, "focus_range", [NoRange EXCEPT !.t = "null"]))
         IN  IF seg.raised
             THEN Fail(<<"Query execution failed: ", seg.error>>) /\ UNCHANGED df
             ELSE IF rng.raised
             THEN Fail(<<"Query execution failed: ", rng.error>>) /\ UNCHANGED df
             ELSE /\ df' = rng.value
                  /\ pc' = "primary"
                  /\ result' = [result EXCEPT !.data_structure = data_structure]
    /\ UNCHANGED call

\* the record of one playbook call: its name, the row set and the numbers passed
Invocation(name, f, a) ==
    [playbook |-> name, df |-> f, top_n |-> PassedTopN(name, a), bins |-> PassedBins(name, a)]

\* the primary playbook
\* lines 215-217 after the primary playbook returned play, or the outer
\* handler when it raised
AfterPrimary(req, name, play) ==
    IF play.raised
    THEN Fail(<<"Query execution failed: ", play.error>>)
    ELSE /\ pc' = "secondary"
         /\ result' = [result EXCEPT
                !.play = play,
                !.rest = ReqGet(req, "secondary_playbooks", <<>>),
                !.invoked = Append(@, Invocation(
                     IF name \in SecondaryBranches THEN name ELSE "overview",
                     df, RequestArgs(req)))]

RunPrimary ==
    /\ pc = "primary"
    /\ AfterPrimary(result.analysis_request,
                    ReqGet(result.analysis_request, "playbook", "overview"),
                    PrimaryPlay(ReqGet(result.analysis_request, "playbook", "overview"),
                                df, RequestArgs(result.analysis_request)))
    /\ UNCHANGED <<df, call>>

\* the state after one iteration of the loop with outcome o
AfterSecondary(secondary, a, o) ==
    IF o.escaped
    THEN Fail(<<"Query execution failed: ", secondary>>)
    ELSE /\ pc' = "secondary"
         /\ result' = [result EXCEPT
                !.extra_visualizations = o.extra_visualizations,
                !.rest = Tail(@),
                !.invoked = IF secondary \in SecondaryBranches
                            THEN Append(@, Invocation(secondary, df, a)) ELSE @]

RunSecondary ==
    /\ pc = "secondary"
    /\ result.rest # <<>>
    /\ AfterSecondary(Head(result.rest), RequestArgs(result.analysis_request),
                      SecondaryOutcome(result.extra_visualizations, Head(result.rest), df,
                                       RequestArgs(result.analysis_request)))
    /\ UNCHANGED <<df, call>>

\* step 7 without its try / except: the exception reaches the outer handler
NarratedUncaught(playbook_name, narrative) ==
    IF narrative.raised
    THEN [escaped |-> TRUE, textual_analysis |-> <<>>]
    ELSE [escaped |-> FALSE, textual_analysis |-> narrative.value]

\* step 7 (lines 275-289): the narrative, or the fallback when the call raises
Narrated(playbook_name, narrative) ==
    IF narrative.raised
    THEN [escaped |-> FALSE, textual_analysis |-> FallbackAnalysis(playbook_name)]
    ELSE [escaped |-> FALSE, textual_analysis |-> narrative.value]

\* step 7 and the response
Respond ==
    /\ pc = "secondary"
    /\ result.rest = <<>>
    /\ LET narrated == Narrated(ReqGet(result.analysis_request, "playbook", "overview"),
                                generate_insights_call)
       IN  IF narrated.escaped
           THEN Fail(<<"Query execution failed: ", "generate_insights">>)
           ELSE /\ result' = [result EXCEPT
                      !.status = 200,
                      !.body = [visualization |-> result.play.visualization,
                                extra_visualizations |->
                                   IF result.extra_visualizations = <<>> THEN J("null", <<>>)
                                   ELSE J("list", result.extra_visualizations),
                                analysis |-> narrated.textual_analysis,
                                data_structure |-> result.play.analysis_context @@ result.data_structure]]
                /\ pc' = "done"
    /\ UNCHANGED <<df, call>>

NextDispatch ==
    \/ PlanAnalysis
    \/ FetchAndFilter
    \/ RunPrimary
    \/ RunSecondary
    \/ Respond

SpecDispatch == InitDispatch /\ [][NextDispatch]_vars

(* ---------------------------------------------------------------------- *)
(* Vocabulary of the properties of execute_query                            *)
(* ---------------------------------------------------------------------- *)
Req == result.analysis_request
Args == RequestArgs(Req)
PrimaryName == ReqGet(Req, "playbook", "overview")
Requested == ReqGet(Req, "secondary_playbooks", <<>>)
Running == pc \in {"primary", "secondary", "done"}

\* the playbook a name stands for, called on f as the dispatcher calls it
PlaybookOn(name, f) == PrimaryPlay(name, f, Args)

\* the requested secondary playbooks that the dispatcher has a branch for
\* and that do not raise on f
Succeeding(f) ==
    SelectSeq(Requested, LAMBDA n : n \in SecondaryBranches /\ ~SecondaryPlay(n, f, Args).raised)

\* the names of the playbooks called after the primary one
InvokedSecondary == [k \in 1..(Len(result.invoked) - 1) |-> result.invoked[k + 1].playbook]

\* a JSON value that is a number
IsNumber(j) == j.t \in {"int", "float"}

\* the filter of the request applies to the fetched rows
SegmentApplies ==
    LET fs == ReqGet(Req, "filter_segment", NoFilter)
    IN  fs.t = "dict" /\ fs.column \in Range(call.results.columns)
RangeApplies ==
    LET fr == ReqGet(Req, "focus_range", NoRange)
    IN  fr.t = "dict" /\ fr.feature \in Range(call.results.columns)
        /\ IsNumber(fr.min) /\ IsNumber(fr.max)

\* row i of the fetched rows has the given value in the filter's column
SameValue(i) ==
    LET fs == ReqGet(Req, "filter_segment", NoFilter)
        c == call.results.data[fs.column][i]
        object == call.results.dtypes[fs.column] = "object"
    IN  /\ ~IsNull(c)
        /\ \/ object /\ fs.value.t = "str" /\ Val(c) = fs.value.v
           \/ ~object /\ fs.value.t \in {"int", "float", "bool"} /\ 10 * Val(c) = Tenths(fs.value)

\* row i of the fetched rows has a number within [min, max] in the feature
WithinRange(i) ==
    LET fr == ReqGet(Req, "focus_range", NoRange)
        c == call.results.data[fr.feature][i]
    IN  /\ ~IsNull(c)
        /\ call.results.dtypes[fr.feature] # "object"
        /\ Tenths(fr.min) <= 10 * Val(c)
        /\ 10 * Val(c) <= Tenths(fr.max)

\* the fetched rows that satisfy every filter that applies, in their order
FilteredRows ==
    TakeRows(call.results,
             SelectIdx(call.results.nrows,
                       LAMBDA i : (SegmentApplies => SameValue(i)) /\ (RangeApplies => WithinRange(i))))

(* ---------------------------------------------------------------------- *)
(* Properties of execute_query                                              *)
(* ---------------------------------------------------------------------- *)

\* C12: a secondary playbook that raises is skipped and never aborts the
\* request: no request fails in the loop over the secondary playbooks, the
\* primary result is kept unchanged while they run, the response carries
\* the primary playbook's visualization and analysis_context, every
\* requested secondary playbook the dispatcher has a branch for is run,
\* also after one that failed, and the extra visualizations are those of
\* the ones that did not fail, in request order.
C12_SecondaryFailureSkipped ==
    /\ (pc = "failed" => result.failed_at # "secondary")
    /\ (pc \in {"secondary", "done"} =>
          LET primary == PlaybookOn(PrimaryName, df)
          IN  /\ result.play = primary
              /\ (pc = "done" =>
                    LET succeeding == Succeeding(df)
                    IN  /\ result.body.visualization = primary.visualization
                        /\ \A key \in DOMAIN primary.analysis_context :
                              result.body.data_structure[key] = primary.analysis_context[key]
                        /\ InvokedSecondary = SelectSeq(Requested, LAMBDA n : n \in SecondaryBranches)
                        /\ result.extra_visualizations =
                              [k \in 1..Len(succeeding) |->
                                  PlaybookOn(succeeding[k], df).visualization]))

\* a response whose first secondary playbook raised and whose second one
\* ran and delivered its visualization
C12_Witness ==
    /\ pc = "done"
    /\ Len(Requested) >= 2
    /\ Requested[1] \in SecondaryBranches
    /\ SecondaryPlay(Requested[1], df, Args).raised
    /\ Requested[2] \in SecondaryBranches
    /\ ~SecondaryPlay(Requested[2], df, Args).raised
    /\ result.body.extra_visualizations.t = "list"
    /\ result.body.extra_visualizations.v[1] = PlaybookOn(Requested[2], df).visualization
    /\ result.body.visualization.type # "table"

\* C29: once the primary playbook has run, the failure of the narrative
\* generator (called without its required argument visualization) does not
\* abort the request: the response carries the primary playbook's
\* visualization, the extra visualizations (null when there are none), the
\* classification merged with the analysis context, and as analysis the
\* fallback summary that names the playbook, with no findings.
C29_NarrativeFailureTolerated ==
    /\ generate_insights_call.raised
    /\ (pc = "failed" => result.failed_at \in {"plan", "fetch", "primary"})
    /\ (pc = "done" =>
          /\ result.status = 200
          /\ result.body.visualization = result.play.visualization
          /\ result.body.extra_visualizations =
                IF result.extra_visualizations = <<>> THEN J("null", <<>>)
                ELSE J("list", result.extra_visualizations)
          /\ \A key \in DOMAIN result.play.analysis_context :
                result.body.data_structure[key] = result.play.analysis_context[key]
          /\ \A key \in DOMAIN result.data_structure \ DOMAIN result.play.analysis_context :
                result.body.data_structure[key] = result.data_structure[key]
          /\ result.body.analysis =
                [summary |-> <<"Analysis completed using playbook '", PrimaryName, "'.">>,
                 key_findings |-> <<>>, patterns |-> <<>>, recommendations |-> <<>>])

\* a correlation request with a secondary chart was answered with both
\* charts and the fallback summary
C29_Witness ==
    /\ pc = "done"
    /\ PrimaryName = "correlation"
    /\ result.body.visualization.type = "bar"
    /\ result.body.extra_visualizations.t = "list"
    /\ result.body.analysis.summary = <<"Analysis completed using playbook '", "correlation", "'.">>
    /\ result.data_structure # <<>>
    /\ "row_count" \in DOMAIN result.body.data_structure

\* C13: every playbook call of a request is made on the same filtered row
\* set, and when no requested secondary playbook raises, the extra
\* visualizations are exactly the visualizations of the requested playbooks
\* on that row set, one per requested name, in request order.
C13_OneVisualizationPerSecondary ==
    /\ \A k \in 1..Len(result.invoked) : result.invoked[k].df = df
    /\ (pc = "done" /\ (\A k \in 1..Len(Requested) : ~PlaybookOn(Requested[k], df).raised) =>
          result.extra_visualizations =
             [k \in 1..Len(Requested) |-> PlaybookOn(Requested[k], df).visualization])

\* C14: no request fails in the filters, and the row set the playbooks get
\* is exactly the fetched rows, in their order, that satisfy every filter
\* that applies: filter_segment when its column is a column of the rows,
\* focus_range when its feature is a column and min and max are numbers.
C14_FilteredRows ==
    /\ (pc = "failed" => result.failed_at # "fetch")
    /\ (Running => df = FilteredRows)

\* C15: every correlation_playbook call gets a top_n in 3..50 and every
\* distribution_playbook / feature_outcome_profile_playbook call a bins in
\* 5..50; when the planner's value is missing or no number the call gets
\* the default: top_n 5, bins 10 (distribution) or 8 (profile).
C15_ClampedNumbers ==
    \A k \in 1..Len(result.invoked) :
        LET inv == result.invoked[k]
            r == call.response.v
        IN  /\ inv.playbook = "correlation" =>
                /\ inv.top_n \in TopNMin..TopNMax
                /\ (r.top_n.t \in {"absent", "null", "str"} => inv.top_n = DefaultTopN)
            /\ inv.playbook \in {"distribution", "feature_outcome_profile"} =>
                /\ inv.bins \in BinsMin..BinsMax
                /\ (r.bins.t \in {"absent", "null", "str"} =>
                      inv.bins = IF inv.playbook = "distribution" THEN DefaultBins
                                 ELSE DefaultProfileBins)

\* correlation ran with the planner's top_n of 51 cut to 50, and a
\* distribution ran with the planner's bins of 4 raised to 5
C15_Witness ==
    /\ pc = "done"
    /\ \/ /\ call.response.v.top_n = J("int", 51)
          /\ result.invoked[1].playbook = "correlation"
          /\ result.invoked[1].top_n = TopNMax
          /\ result.body.visualization.type = "bar"
       \/ /\ call.response.v.bins = J("int", 4)
          /\ result.invoked[1].playbook = "distribution"
          /\ result.invoked[1].bins = BinsMin
          /\ result.body.visualization.type = "histogram"
          /\ Len(result.body.visualization.data.values) = BinsMin

\* C16: every planner response is validated into a request whose playbook
\* is one of the 8 allowed names ("overview" when the response is no object
\* or its playbook is unknown, null or missing) and whose secondary
\* playbooks are allowed names other than the primary; the dispatcher runs
\* overview_playbook for a name it does not recognise.
C16_AllowedPlaybooks ==
    LET r == call.response
        numbers_ok == r.v.top_n.t # "nan" /\ r.v.bins.t # "nan"
        playbook_known == r.t = "dict" /\ r.v.playbook \in allowed_playbooks
    IN  /\ (pc = "failed" /\ numbers_ok /\ r.v.target # Unhashable => result.failed_at # "plan")
        /\ (pc \notin {"plan", "failed"} =>
              /\ PrimaryName \in allowed_playbooks
              /\ (~playbook_known => PrimaryName = "overview")
              /\ (playbook_known => PrimaryName = r.v.playbook)
              /\ \A k \in 1..Len(Requested) :
                    Requested[k] \in allowed_playbooks /\ Requested[k] # PrimaryName)
        /\ (pc \in {"secondary", "done"} /\ PrimaryName \notin SecondaryBranches =>
              result.play = overview_playbook(df))

(* ---------------------------------------------------------------------- *)
(* Chart selection (viz_service.py)                                         *)
(* ---------------------------------------------------------------------- *)
\* a Python dict is a function on the keys it has
DictGet(d, key, default) == IF key \in DOMAIN d THEN d[key] ELSE default
Put(d, key, v) == [k \in DOMAIN d \cup {key} |-> IF k = key THEN v ELSE d[k]]

\* a Python str is a sequence of characters; str.lower() and str.strip()
Whitespace == {" ", "\t"}
LowerChar(c) ==
    CASE c = "A" -> "a" [] c = "B" -> "b" [] c = "C" -> "c" [] c = "E" -> "e"
      [] c = "I" -> "i" [] c = "L" -> "l" [] c = "N" -> "n" [] c = "P" -> "p"
      [] c = "R" -> "r" [] c = "S" -> "s" [] c = "T" -> "t" [] OTHER -> c
LowerChars(s) == [i \in 1..Len(s) |-> LowerChar(s[i])]
Strip(s) ==
    LET inner == {i \in 1..Len(s) : s[i] \notin Whitespace}
    IN  IF inner = {} THEN <<>>
        ELSE SubSeq(s, CHOOSE i \in inner : \A j \in inner : i <= j,
                       CHOOSE i \in inner : \A j \in inner : i >= j)
RECURSIVE Join(_)
Join(s) == IF s = <<>> THEN "" ELSE Head(s) \o Join(Tail(s))

allowed_chart_types ==
    {"bar", "horizontal_bar", "line", "pie", "scatter", "histogram",
     "correlation_matrix", "table"}

\* the explicit chart type taken as it is spelled
ExplicitChartAsSpelled(e) ==
    IF e.t = "str"
    THEN LET explicit_chart == Join(e.v)
         IN  IF explicit_chart \notin allowed_chart_types THEN None ELSE explicit_chart
    ELSE None

\* lines 39-44: a string is lower-cased and stripped and kept when it is an
\* allowed chart type; everything else becomes None
ExplicitChart(e) ==
    IF e.t = "str"
    THEN LET explicit_chart == Join(Strip(LowerChars(e.v)))
         IN  IF explicit_chart \notin allowed_chart_types THEN None ELSE explicit_chart
    ELSE None

Returns(chart) == [raised |-> FALSE, chart |-> chart]

_calculate_bins(row_count) ==
    IF row_count < 10 THEN 5
    ELSE IF row_count < 100 THEN 10
    ELSE IF row_count < 1000 THEN 20
    ELSE 30

_create_chart_config(chart_type, intent, data_structure) ==
    LET categorical_cols == DictGet(data_structure, "categorical_columns", <<>>)
        numeric_cols == DictGet(data_structure, "numeric_columns", <<>>)
        datetime_cols == DictGet(data_structure, "datetime_columns", <<>>)
        config == [type |-> chart_type]
    IN  IF chart_type \in {"bar", "horizontal_bar", "line"}
        THEN IF datetime_cols # <<>> /\ numeric_cols # <<>>
             THEN Put(Put(config, "x_axis", datetime_cols[1]), "y_axis", numeric_cols[1])
             ELSE IF categorical_cols # <<>> /\ numeric_cols # <<>>
             THEN Put(Put(config, "x_axis", categorical_cols[1]), "y_axis", numeric_cols[1])
             ELSE config
        ELSE IF chart_type = "pie"
        THEN IF categorical_cols # <<>> /\ numeric_cols # <<>>
             THEN Put(Put(config, "labels", categorical_cols[1]), "values", numeric_cols[1])
             ELSE config
        ELSE IF chart_type = "scatter"
        THEN IF Len(numeric_cols) >= 2
             THEN Put(Put(config, "x_axis", numeric_cols[1]), "y_axis", numeric_cols[2])
             ELSE config
        ELSE IF chart_type = "correlation_matrix"
        THEN Put(config, "title",
                 IF DictGet(intent, "title", <<>>) # <<>> THEN intent.title
                 ELSE <<"Correlation Matrix">>)
        ELSE config

\* the comparison rule with the thresholds taken as strict
ComparisonChartTypeBelow(cardinality) ==
    IF cardinality < 5 THEN "bar"
    ELSE IF cardinality < 20 THEN "horizontal_bar"
    ELSE None

\* lines 82-105: the chart type of the comparison rule for the cardinality
\* of the first categorical column, None when the rule returns nothing
ComparisonChartType(cardinality) ==
    IF cardinality <= 5 THEN "bar"
    ELSE IF cardinality <= 20 THEN "horizontal_bar"
    ELSE None

\* a default rule that always falls back to the table
DefaultRuleTable(categorical_cols, numeric_cols) ==
    [type |-> "table", config |-> [title |-> <<"Query Results">>]]

\* rule 6 and the table fallback (lines 153-175)
DefaultRule(categorical_cols, numeric_cols) ==
    IF categorical_cols # <<>> /\ numeric_cols # <<>>
    THEN [type |-> "bar", x_axis |-> categorical_cols[1], y_axis |-> numeric_cols[1],
          config |-> [title |-> <<numeric_cols[1], " by ", categorical_cols[1]>>,
                      xLabel |-> categorical_cols[1], yLabel |-> numeric_cols[1]]]
    ELSE [type |-> "table", config |-> [title |-> <<"Query Results">>]]

\* rules 2 to 6 and the table fallback (lines 72-175)
IntentRules(primary_intent, data_structure) ==
    LET categorical_cols == DictGet(data_structure, "categorical_columns", <<>>)
        numeric_cols == DictGet(data_structure, "numeric_columns", <<>>)
        both == categorical_cols # <<>> /\ numeric_cols # <<>>
        cardinality == DictGet(DictGet(data_structure, "cardinality", <<>>),
                               categorical_cols[1], 0)
    IN  IF primary_intent \in {"comparison", "trend_comparison"} /\ both
           /\ ComparisonChartType(cardinality) # None
        THEN [type |-> ComparisonChartType(cardinality),
              x_axis |-> categorical_cols[1], y_axis |-> numeric_cols[1],
              config |-> [title |-> <<numeric_cols[1], " by ", categorical_cols[1]>>,
                          xLabel |-> categorical_cols[1], yLabel |-> numeric_cols[1],
                          sort |-> "descending"]]
        ELSE IF primary_intent = "distribution" /\ numeric_cols # <<>>
        THEN [type |-> "histogram", x_axis |-> numeric_cols[1],
              config |-> [title |-> <<"Distribution of ", numeric_cols[1]>>,
                          xLabel |-> numeric_cols[1],
                          bins |-> _calculate_bins(DictGet(data_structure, "row_count", 0))]]
        ELSE IF primary_intent = "correlation" /\ Len(numeric_cols) >= 2
        THEN [type |-> "correlation_matrix", config |-> [title |-> <<"Feature Correlations">>]]
        ELSE IF primary_intent = "part_to_whole" /\ both /\ cardinality <= 10
        THEN [type |-> "pie", labels |-> categorical_cols[1], values |-> numeric_cols[1],
              config |-> [title |-> <<numeric_cols[1], " by ", categorical_cols[1]>>]]
        ELSE DefaultRule(categorical_cols, numeric_cols)

select_chart_type(intent, data_structure) ==
    LET primary_intent == DictGet(intent, "primary_intent", "comparison")
        explicit_chart == ExplicitChart(DictGet(intent, "explicit_chart_type", J("null", <<>>)))
    IN  IF explicit_chart # None
        THEN Returns(_create_chart_config(explicit_chart, intent, data_structure))
        ELSE IF DictGet(data_structure, "has_time_series", FALSE)
                /\ primary_intent \in {"trend", "trend_comparison"}
        THEN \* rule 1: .get("datetime_columns", [None])[0], .get("numeric_columns", [None])[0]
             IF DictGet(data_structure, "datetime_columns", <<None>>) = <<>>
                \/ DictGet(data_structure, "numeric_columns", <<None>>) = <<>>
             THEN Raise("IndexError")
             ELSE LET datetime_col == DictGet(data_structure, "datetime_columns", <<None>>)[1]
                      numeric_col == DictGet(data_structure, "numeric_columns", <<None>>)[1]
                  IN  IF datetime_col # None /\ numeric_col # None
                      THEN Returns([type |-> "line", x_axis |-> datetime_col, y_axis |-> numeric_col,
                                    config |-> [title |-> <<numeric_col, " Over Time">>,
                                                xLabel |-> datetime_col, yLabel |-> numeric_col]])
                      ELSE Returns(IntentRules(primary_intent, data_structure))
        ELSE Returns(IntentRules(primary_intent, data_structure))

(* ---------------------------------------------------------------------- *)
(* Intents and classifications                                              *)
(* ---------------------------------------------------------------------- *)
\* spellings of an explicit chart type: the 8 allowed types, some of them
\* in upper case or padded, and strings that name no chart type
Spellings ==
    { <<"b", "a", "r">>,
      <<" ", "B", "a", "r", " ">>,
      <<"h", "o", "r", "i", "z", "o", "n", "t", "a", "l", "_", "b", "a", "r">>,
      <<"L", "i", "n", "e">>,
      <<"P", "I", "E", "\t">>,
      <<"s", "c", "a", "t", "t", "e", "r">>,
      <<"h", "i", "s", "t", "o", "g", "r", "a", "m">>,
      <<"c", "o", "r", "r", "e", "l", "a", "t", "i", "o", "n", "_", "m", "a", "t", "r", "i", "x">>,
      <<" ", "T", "A", "B", "L", "E">>,
      <<"d", "o", "n", "u", "t">>,
      <<"b", " ", "a", "r">>,
      <<>> }

\* values of the key "explicit_chart_type": strings, null, a number
ExplicitValues ==
    { J("str", chars) : chars \in Spellings } \cup { J("null", <<>>), J("int", <<>>) }

PrimaryIntents ==
    {"comparison", "trend", "trend_comparison", "distribution", "correlation",
     "part_to_whole", "ranking"}

\* one dict per choice of the keys it has
WithKey(d, key, values) == {d} \cup {Put(d, key, v) : v \in values}
WithKeys(ds, key, values) == UNION {WithKey(d, key, values) : d \in ds}

Intents ==
    LET plain == WithKeys(WithKey(<<>>, "primary_intent", PrimaryIntents),
                          "explicit_chart_type", ExplicitValues)
    IN  plain \cup { Put(i, "title", <<"Risk factors">>) :
                       i \in {x \in plain : "explicit_chart_type" \in DOMAIN x
                                              /\ x.explicit_chart_type.v = <<"c", "o", "r", "r", "e", "l", "a", "t", "i", "o", "n", "_", "m", "a", "t", "r", "i", "x">>} }

\* classifications of a row set in which every field may be absent or empty
Shapes ==
    WithKeys(WithKeys(WithKeys(WithKey(<<>>,
        "has_time_series", {TRUE, FALSE}),
        "datetime_columns", {<<>>, <<"date">>}),
        "numeric_columns", {<<>>, <<"amount">>, <<"amount", "qty">>}),
        "categorical_columns", {<<>>, <<"region">>})

\* no entry, and the cardinalities on both sides of each threshold
Cardinalities ==
    {<<>>, [region |-> 5], [region |-> 6], [region |-> 10], [region |-> 11],
     [region |-> 20], [region |-> 21]}
RowCounts == {5, 50, 500, 5000}

\* every shape with every cardinality, and with every row count where the
\* row count is read (a distribution over a numeric column)
Classifications ==
    WithKeys(Shapes, "cardinality", Cardinalities)
    \cup WithKeys({d \in Shapes : DictGet(d, "numeric_columns", <<>>) # <<>>
                                  /\ "categorical_columns" \notin DOMAIN d},
                  "row_count", RowCounts)

(* ---------------------------------------------------------------------- *)
(* select_chart_type as a state machine: one call per behaviour             *)
(*   call   : the arguments intent and data_structure                       *)
(*   result : the chart configuration returned, or the exception raised     *)
(* ---------------------------------------------------------------------- *)
InitChart ==
    /\ df = NoFrame
    /\ call \in [intent : Intents, data_structure : Classifications]
    /\ result = <<>>
    /\ pc = "select"

SelectChartType ==
    /\ pc = "select"
    /\ result' = select_chart_type(call.intent, call.data_structure)
    /\ pc' = "selected"
    /\ UNCHANGED <<df, call>>

NextChart == SelectChartType

SpecChart == InitChart /\ [][NextChart]_vars

(* ---------------------------------------------------------------------- *)
(* Properties of select_chart_type                                          *)
(* ---------------------------------------------------------------------- *)
Given == DictGet(call.intent, "explicit_chart_type", J("null", <<>>))
GivenType == Join(Strip(LowerChars(Given.v)))
Honoured == Given.t = "str" /\ GivenType \in allowed_chart_types
WithoutExplicit ==
    [k \in DOMAIN call.intent \ {"explicit_chart_type"} |-> call.intent[k]]

\* C17: an explicit chart type that, lower-cased and trimmed, is one of the
\* 8 allowed types is the type of the returned chart, whatever the intent
\* and the classification; any other explicit value changes nothing: the
\* call returns what it returns without the explicit value.
C17_ExplicitChartHonoured ==
    pc = "selected" =>
        IF Honoured
        THEN ~result.raised /\ result.chart.type = GivenType
        ELSE result = select_chart_type(WithoutExplicit, call.data_structure)

\* " Bar " was asked for a distribution over a numeric column, where the
\* intent rules give a histogram, and a bar chart is returned
C17_Witness ==
    /\ pc = "selected"
    /\ Given = J("str", <<" ", "B", "a", "r", " ">>)
    /\ DictGet(call.intent, "primary_intent", "comparison") = "distribution"
    /\ DictGet(call.data_structure, "numeric_columns", <<>>) # <<>>
    /\ select_chart_type(WithoutExplicit, call.data_structure).chart.type = "histogram"
    /\ result.chart.type = "bar"

\* C18: select_chart_type raises for no classification, whichever fields
\* are absent or empty, and returns the table fallback for the empty
\* classification when no explicit chart type is given.
C18_PartialClassification ==
    pc = "selected" =>
        /\ ~result.raised
        /\ (call.data_structure = <<>> /\ "explicit_chart_type" \notin DOMAIN call.intent =>
              result.chart.type = "table")

\* the call as the rules see it
PrimaryIntent == DictGet(call.intent, "primary_intent", "comparison")
CategoricalCols == DictGet(call.data_structure, "categorical_columns", <<>>)
NumericCols == DictGet(call.data_structure, "numeric_columns", <<>>)
DatetimeCols == DictGet(call.data_structure, "datetime_columns", <<>>)
FirstCardinality ==
    DictGet(DictGet(call.data_structure, "cardinality", <<>>), CategoricalCols[1], 0)
ComparisonLike == PrimaryIntent \in {"comparison", "trend_comparison"}
TrendLike == PrimaryIntent \in {"trend", "trend_comparison"}

\* the time-series rule matches: a time series, a trend-like intent, a
\* datetime and a numeric column
TimeSeriesMatches ==
    /\ DictGet(call.data_structure, "has_time_series", FALSE)
    /\ TrendLike
    /\ DatetimeCols # <<>>
    /\ NumericCols # <<>>

\* the chart type of the first rule that matches, in the order time series,
\* comparison, distribution, correlation, part-to-whole, default
FirstMatchingRule ==
    IF TimeSeriesMatches THEN "line"
    ELSE IF ComparisonLike /\ CategoricalCols # <<>> /\ NumericCols # <<>> /\ FirstCardinality <= 5
    THEN "bar"
    ELSE IF ComparisonLike /\ CategoricalCols # <<>> /\ NumericCols # <<>> /\ FirstCardinality <= 20
    THEN "horizontal_bar"
    ELSE IF PrimaryIntent = "distribution" /\ NumericCols # <<>> THEN "histogram"
    ELSE IF PrimaryIntent = "correlation" /\ Len(NumericCols) >= 2 THEN "correlation_matrix"
    ELSE IF PrimaryIntent = "part_to_whole" /\ CategoricalCols # <<>> /\ NumericCols # <<>>
            /\ FirstCardinality <= 10
    THEN "pie"
    ELSE IF CategoricalCols # <<>> /\ NumericCols # <<>> THEN "bar"
    ELSE "table"

\* C22: with no valid explicit chart type, select_chart_type returns the
\* chart of the first rule that matches, the rules tried in the order time
\* series, comparison, distribution, correlation, part-to-whole, default; a
\* trend_comparison intent with a time series gives a line chart.
C22_FirstMatchingRule ==
    (pc = "selected" /\ ~Honoured) =>
        /\ ~result.raised
        /\ result.chart.type = FirstMatchingRule

\* the call got past the time-series rule: the rule was not entered, or it
\* found no datetime or no numeric column to chart
PastTimeSeriesRule ==
    /\ pc = "selected"
    /\ ~Honoured
    /\ ~result.raised
    /\ result.chart.type # "line"

\* the case of the comparison rule
ComparisonCase ==
    /\ PastTimeSeriesRule
    /\ ComparisonLike
    /\ CategoricalCols # <<>>
    /\ NumericCols # <<>>

\* the chart was made by the comparison rule: only that rule sorts
ByComparisonRule == "sort" \in DOMAIN result.chart.config

\* C23: in the comparison rule (comparison-like intent, a categorical and a
\* numeric column, no explicit type, the time-series rule passed) the chart
\* is a bar chart for a first categorical column of cardinality <= 5, a
\* horizontal bar chart for 6..20, both over the first categorical and the
\* first numeric column, and above 20 the rule decides nothing.
C23_ComparisonThresholds ==
    ComparisonCase =>
        IF FirstCardinality <= 5
        THEN /\ ByComparisonRule
             /\ result.chart.type = "bar"
             /\ result.chart.x_axis = CategoricalCols[1]
             /\ result.chart.y_axis = NumericCols[1]
        ELSE IF FirstCardinality <= 20
        THEN /\ ByComparisonRule
             /\ result.chart.type = "horizontal_bar"
             /\ result.chart.x_axis = CategoricalCols[1]
             /\ result.chart.y_axis = NumericCols[1]
        ELSE ~ByComparisonRule

\* a comparison over a column of exactly 5 values is a bar chart made by
\* the comparison rule
C23_Witness ==
    /\ ComparisonCase
    /\ PrimaryIntent = "comparison"
    /\ FirstCardinality = 5
    /\ result.chart.type = "bar"
    /\ ByComparisonRule

\* C28: in the case of the comparison rule the chart is a bar or a
\* horizontal bar chart whatever the cardinality: above 20 the default rule
\* charts it as a bar, as for a cardinality <= 5, and a cardinality missing
\* from the cardinality map counts as 0 and gives a bar.
C28_AlwaysBar ==
    ComparisonCase =>
        /\ result.chart.type \in {"bar", "horizontal_bar"}
        /\ (FirstCardinality > 20 =>
              /\ result.chart = DefaultRule(CategoricalCols, NumericCols)
              /\ result.chart.type = "bar")
        /\ (CategoricalCols[1] \notin DOMAIN DictGet(call.data_structure, "cardinality", <<>>) =>
              /\ result.chart.type = "bar"
              /\ ByComparisonRule)

\* a trend comparison with a time series but no datetime column, over a
\* column of 21 values, is charted as a bar by the default rule
C28_Witness ==
    /\ ComparisonCase
    /\ PrimaryIntent = "trend_comparison"
    /\ DictGet(call.data_structure, "has_time_series", FALSE)
    /\ FirstCardinality = 21
    /\ result.chart.type = "bar"
    /\ ~ByComparisonRule

(* ---------------------------------------------------------------------- *)
(* Feature auto-selection: the three playbooks that infer a numeric        *)
(* feature are called on one row set with one feature argument that names  *)
(* no numeric column.                                                       *)
(*   df     : the row set                                                   *)
(*   call   : the feature argument                                          *)
(*   result : the results so far, by playbook name                          *)
(* ---------------------------------------------------------------------- *)
SelectionSchemas ==
    { <<Col("x1", "number", {"asc", "gap"}), Col("score", "number", {"alt", "neg"}),
        Col("grp", "object", {"skew", "hole"})>>,
      <<Col("Insulin", "number", {"asc", "gap"}), Col("BMI", "number", {"alt", "neg"}),
        Col("grp", "object", {"skew", "hole"})>>,
      <<Col("BMI", "number", {"asc", "gap"}), Col("score", "number", {"alt", "neg"}),
        Col("grp", "object", {"skew", "hole"})>>,
      <<Col("grp", "object", {"skew", "hole"}), Col("amount", "number", {"asc", "gap"}),
        Col("Age", "number", {"alt", "neg"})>>,
      <<Col("x1", "number", {"asc", "gap"}), Col("grp", "object", {"skew", "hole"})>> }

SelectionFrames ==
    UNION { { MkFrame(s, pats, n) :
                pats \in {p \in [1..Len(s) -> Patterns] : \A k \in 1..Len(s) : p[k] \in s[k].pats},
                n \in {0, MaxRows - 1, MaxRows} }
            : s \in SelectionSchemas }

\* a feature argument that is absent, empty, no column, or no numeric column
NoNumericColumn(f) == {None, "", "nope"} \cup {c \in Range(f.columns) : f.dtypes[c] # "number"}

InitSelect ==
    /\ df \in SelectionFrames
    /\ call \in {[feature |-> a] : a \in NoNumericColumn(df)}
    /\ result = <<>>
    /\ pc = "select"

Infer(name, play) ==
    /\ pc = "select"
    /\ name \notin DOMAIN result
    /\ result' = Put(result, name, play)
    /\ UNCHANGED <<df, call, pc>>

InferDistribution ==
    Infer("distribution", distribution_playbook(df, call.feature, DefaultBins))

InferProfile ==
    Infer("feature_outcome_profile",
          feature_outcome_profile_playbook(df, call.feature, None, DefaultProfileBins))

InferSegmentedDistribution ==
    Infer("segmented_distribution", segmented_distribution_playbook(df, call.feature, None))

NextSelect ==
    \/ InferDistribution
    \/ InferProfile
    \/ InferSegmentedDistribution

SpecSelect == InitSelect /\ [][NextSelect]_vars

\* the feature a result reports, None when it reports none
FeatureOf(play) ==
    IF ~play.raised /\ "feature" \in DOMAIN play.analysis_context
    THEN play.analysis_context.feature ELSE None

\* the rule of the claim: the first numeric column whose lower-cased name is
\* in the preferred list, otherwise the first numeric column
PreferredFeature(f) ==
    LET numeric == select_dtypes_number(f).columns
        pick == FirstNamed(numeric, {"age", "glucose", "bmi", "insulin", "score", "amount", "value"})
    IN  IF pick # None THEN pick ELSE numeric[1]

\* C19: on one row set and with a feature argument that is absent or names
\* no numeric column, distribution_playbook, feature_outcome_profile_playbook
\* and segmented_distribution_playbook all select the same feature: the
\* first numeric column whose lower-cased name is one of age, glucose, bmi,
\* insulin, score, amount, value, otherwise the first numeric column.
C19_UniformSelection ==
    \A name \in DOMAIN result :
        FeatureOf(result[name]) # None =>
            /\ FeatureOf(result[name]) = PreferredFeature(df)
            /\ \A other \in DOMAIN result :
                  FeatureOf(result[other]) # None => FeatureOf(result[other]) = FeatureOf(result[name])

(* ---------------------------------------------------------------------- *)
(* Invocations over one shared row set.  Each invocation filters the row   *)
(* set as the dispatcher does and then calls its playbook; the steps of    *)
(* the invocations interleave in every order.                               *)
(*   df     : the shared row set as it is now                               *)
(*   call   : the row set as it was handed over, and the invocations        *)
(*   result : per invocation its own frame and the playbook's result        *)
(*   pc     : per invocation "start", "filtered" or "done"                  *)
(* ---------------------------------------------------------------------- *)
MaxInvocations == 2

SharedFrames ==
    { MkFrame(DatasetSchema, pats, MaxRows) :
        pats \in { <<"skew", "gap", "alt">>, <<"hole", "asc", "gap">> } }

ConcurrentCalls ==
    { [playbook |-> p, filter_segment |-> NoFilter] : p \in allowed_playbooks }
    \cup { [playbook |-> p, filter_segment |-> SegmentFilter("Outcome", J("int", 1))] :
             p \in {"overview", "distribution"} }

\* the filter as df.drop(..., inplace=True) would leave the shared row set
SharedFilteredInPlace(shared, filtered) == filtered

\* df = df[df[col] == value] builds a new frame and rebinds the local name:
\* the frame that was handed over keeps its rows
SharedAfterFilter(shared, filtered) == shared

\* a playbook that drops the incomplete rows of the frame it is given
RowsWithoutNulls(name, f) == dropna(f)

\* the frame a playbook was given, after the call: the playbooks build
\* select_dtypes / dropna / to_numeric copies and assign to no column
RowsAfterPlaybook(name, f) == f

InitShared ==
    /\ df \in SharedFrames
    /\ call \in [rows : {df}, invocations : [1..MaxInvocations -> ConcurrentCalls]]
    /\ result = [i \in 1..MaxInvocations |-> [local |-> NoFrame, aliased |-> FALSE, play |-> <<>>]]
    /\ pc = [i \in 1..MaxInvocations |-> "start"]

\* step 5 of execute_query in invocation i
FilterShared(i) ==
    /\ pc[i] = "start"
    /\ LET c == call.invocations[i]
           filtered == ApplyFilterSegment(df, c.filter_segment).value
           applied == c.filter_segment.t = "dict" /\ HasCol(df, c.filter_segment.column)
       IN  /\ result' = [result EXCEPT ![i].local = filtered, ![i].aliased = ~applied]
           /\ df' = IF applied THEN SharedAfterFilter(df, filtered) ELSE df
    /\ pc' = [pc EXCEPT ![i] = "filtered"]
    /\ UNCHANGED call

\* the playbook call of invocation i, on the shared frame itself when no
\* filter made a new one
InvokeShared(i) ==
    /\ pc[i] = "filtered"
    /\ LET c == call.invocations[i]
           given == IF result[i].aliased THEN df ELSE result[i].local
       IN  /\ result' = [result EXCEPT
                  ![i].play = PrimaryPlay(c.playbook, given, RequestArgs(c)),
                  ![i].local = RowsAfterPlaybook(c.playbook, given)]
           /\ df' = IF result[i].aliased THEN RowsAfterPlaybook(c.playbook, df) ELSE df
    /\ pc' = [pc EXCEPT ![i] = "done"]
    /\ UNCHANGED call

NextShared == \E i \in 1..MaxInvocations : FilterShared(i) \/ InvokeShared(i)

SpecShared == InitShared /\ [][NextShared]_vars

\* what an invocation returns when it runs alone on the row set
Alone(c, rows) ==
    PrimaryPlay(c.playbook, ApplyFilterSegment(rows, c.filter_segment).value, RequestArgs(c))

MaxResultRows == 3

\* row.get(key): None for a key the row does not have
RowGet(row, key) ==
    LET at == {i \in 1..Len(row) : row[i][1] = key}
    IN  IF at = {} THEN NaN ELSE row[CHOOSE i \in at : TRUE][2]

\* list(row.keys())
RowKeys(row) == [i \in 1..Len(row) |-> row[i][1]]

\* a lookup that leaves out the rows without the key
LookupsOfPresent(results, key) ==
    LET has == SelectIdx(Len(results), LAMBDA i : key \in Range(RowKeys(results[i])))
    IN  [k \in 1..Len(has) |-> RowGet(results[has[k]], key)]

\* [row.get(key) for row in results]
Lookups(results, key) == [i \in 1..Len(results) |-> RowGet(results[i], key)]

\* [row.get(key) for row in results if row.get(key) is not None]
NonNullLookups(results, key) ==
    LET kept == SelectIdx(Len(results), LAMBDA i : ~IsNull(RowGet(results[i], key)))
    IN  [k \in 1..Len(kept) |-> RowGet(results[kept[k]], key)]

\* a histogram whose bin count defaults to no bins
HistogramBinsUnset(chart_config) ==
    DictGet(DictGet(chart_config, "config", <<>>), "bins", 0)

\* chart_config.get("config", {}).get("bins", 10)
HistogramBins(chart_config) ==
    DictGet(DictGet(chart_config, "config", <<>>), "bins", 10)

\* the columns of pd.DataFrame(results): the keys in order of first appearance
RECURSIVE AllKeys(_)
AllKeys(results) ==
    IF results = <<>> THEN <<>> ELSE RowKeys(Head(results)) \o AllKeys(Tail(results))
RecordColumns(results) == Unique(AllKeys(results))

\* the dtype pandas infers is numeric: integers, with NaN for the missing
\* values, and not None alone
IsNumberColumn(results, c) ==
    /\ \E i \in 1..Len(results) : ~IsNull(RowGet(results[i], c))
    /\ \A i \in 1..Len(results) : Len(RowGet(results[i], c)) <= 1

\* list(df.select_dtypes(include="number").columns)
NumberColumns(results) ==
    SelectSeq(RecordColumns(results), LAMBDA c : IsNumberColumn(results, c))

\* one entry of num_df.corr().fillna(0.0): Pearson over the rows that have
\* both values, 0 where it is undefined
CorrEntry(results, a, b) ==
    LET both == SelectIdx(Len(results), LAMBDA i : ~IsNull(RowGet(results[i], a))
                                                   /\ ~IsNull(RowGet(results[i], b)))
        r == Pearson([k \in 1..Len(both) |-> Val(RowGet(results[both[k]], a))],
                     [k \in 1..Len(both) |-> Val(RowGet(results[both[k]], b))])
    IN  IF IsNull(r) THEN Cell([sgn |-> 0, p |-> 0, q |-> 1]) ELSE r

\* lines 238-254: the correlation matrix over the numeric columns
CorrelationPayload(results, labels) ==
    IF results = <<>> \/ RecordColumns(results) = <<>>
    THEN [labels |-> <<>>, matrix |-> <<>>]
    ELSE IF Len(labels) < 2
    THEN [labels |-> labels, matrix |-> <<>>]
    ELSE [labels |-> labels,
          matrix |-> [i \in 1..Len(labels) |->
                        [j \in 1..Len(labels) |-> CorrEntry(results, labels[i], labels[j])]]]

format_data_for_chart(results, chart_config) ==
    LET chart_type == DictGet(chart_config, "type", None)
    IN  IF chart_type \in {"bar", "horizontal_bar"}
        THEN [labels |-> Lookups(results, DictGet(chart_config, "x_axis", None)),
              values |-> Lookups(results, DictGet(chart_config, "y_axis", None))]
        ELSE IF chart_type = "line"
        THEN [x |-> Lookups(results, DictGet(chart_config, "x_axis", None)),
              y |-> Lookups(results, DictGet(chart_config, "y_axis", None))]
        ELSE IF chart_type = "pie"
        THEN [labels |-> Lookups(results, DictGet(chart_config, "labels", None)),
              values |-> Lookups(results, DictGet(chart_config, "values", None))]
        ELSE IF chart_type = "scatter"
        THEN [x |-> Lookups(results, DictGet(chart_config, "x_axis", None)),
              y |-> Lookups(results, DictGet(chart_config, "y_axis", None))]
        ELSE IF chart_type = "histogram"
        THEN [values |-> NonNullLookups(results, DictGet(chart_config, "x_axis", None)),
              bins |-> HistogramBins(chart_config)]
        ELSE IF chart_type = "correlation_matrix"
        THEN CorrelationPayload(results, NumberColumns(results))
        ELSE [columns |-> IF results # <<>> THEN RowKeys(results[1]) ELSE <<>>,
              rows |-> results]

(* ---------------------------------------------------------------------- *)
(* Result sets and chart configurations                                     *)
(* ---------------------------------------------------------------------- *)
ResultRows ==
    { << <<"region", Str(1)>>, <<"amount", Cell(1)>>, <<"qty", Cell(2)>> >>,
      << <<"region", Str(2)>>, <<"amount", Cell(2)>>, <<"qty", Cell(1)>> >>,
      << <<"amount", NaN>>, <<"region", Str(1)>>, <<"qty", Cell(3)>> >>,
      << <<"qty", Cell(5)>> >>,
      << <<"region", NaN>>, <<"amount", Cell(4)>> >>,
      <<>> }

ResultSets == UNION { [1..n -> ResultRows] : n \in 0..MaxResultRows }

\* configurations as a caller may build them: every chart type, a name
\* that is no chart type and no type at all, the bindings present or not
ChartConfigs ==
    WithKeys(WithKeys({[type |-> t] : t \in {"bar", "horizontal_bar", "line", "scatter"}},
                      "x_axis", {"region", "nope"}), "y_axis", {"amount"})
    \cup WithKeys(WithKeys({[type |-> "pie"]}, "labels", {"region"}), "values", {"amount", "qty"})
    \cup WithKeys(WithKeys({[type |-> "histogram"]}, "x_axis", {"amount", "region"}),
                  "config", {[title |-> <<"Distribution of ", "amount">>], [bins |-> 20]})
    \cup {[type |-> "correlation_matrix"], [type |-> "table"], [type |-> "donut"], <<>>}

\* calls of select_chart_type for a distribution, with and without an
\* explicit histogram
HistogramIntents ==
    WithKeys({<<>>, [primary_intent |-> "distribution"], [primary_intent |-> "comparison"]},
             "explicit_chart_type",
             {J("str", <<"h", "i", "s", "t", "o", "g", "r", "a", "m">>),
              J("str", <<"P", "I", "E", "\t">>)})
HistogramShapes ==
    WithKeys(WithKeys({<<>>},
        "numeric_columns", {<<>>, <<"amount">>, <<"qty", "amount">>}),
        "row_count", {9, 10, 99, 100, 999, 1000})

(* ---------------------------------------------------------------------- *)
(* format_data_for_chart as a state machine: a configuration is given, or  *)
(* selected by select_chart_type, and the rows are formatted for it.       *)
(*   call   : the rows and the configuration, or the rows and the           *)
(*            arguments of select_chart_type                                *)
(*   result : the configuration in use and the formatted data               *)
(*   pc     : "start", "selected", "formatted"                              *)
(* ---------------------------------------------------------------------- *)
InitFormat ==
    /\ df = NoFrame
    /\ \/ call \in [results : ResultSets, chart_config : ChartConfigs]
       \/ call \in [results : ResultSets, intent : HistogramIntents,
                    data_structure : HistogramShapes]
    /\ result = <<>>
    /\ pc = "start"

\* format_data_for_chart(results, chart_config)
FormatGiven ==
    /\ pc = "start"
    /\ "chart_config" \in DOMAIN call
    /\ result' = [chart_config |-> call.chart_config,
                  data |-> format_data_for_chart(call.results, call.chart_config)]
    /\ pc' = "formatted"
    /\ UNCHANGED <<df, call>>

\* chart_config = select_chart_type(intent, data_structure)
SelectForFormat ==
    /\ pc = "start"
    /\ "intent" \in DOMAIN call
    /\ ~select_chart_type(call.intent, call.data_structure).raised
    /\ result' = [chart_config |-> select_chart_type(call.intent, call.data_structure).chart]
    /\ pc' = "selected"
    /\ UNCHANGED <<df, call>>

\* format_data_for_chart(results, chart_config) for the selected one
FormatSelected ==
    /\ pc = "selected"
    /\ result' = [chart_config |-> result.chart_config,
                  data |-> format_data_for_chart(call.results, result.chart_config)]
    /\ pc' = "formatted"
    /\ UNCHANGED <<df, call>>

NextFormat ==
    \/ FormatGiven
    \/ SelectForFormat
    \/ FormatSelected

SpecFormat == InitFormat /\ [][NextFormat]_vars

(* ---------------------------------------------------------------------- *)
(* Properties of format_data_for_chart                                      *)
(* ---------------------------------------------------------------------- *)
ChartType == DictGet(result.chart_config, "type", None)
Bound(key) == DictGet(result.chart_config, key, None)

\* the value row i has under the column a binding names: null when the
\* binding is missing or the row has no such key
ValueAt(i, key) ==
    IF Bound(key) # None /\ \E k \in 1..Len(call.results[i]) : call.results[i][k][1] = Bound(key)
    THEN LET k == CHOOSE k \in 1..Len(call.results[i]) : call.results[i][k][1] = Bound(key)
         IN  call.results[i][k][2]
    ELSE NaN

\* the list has one entry per input row, in row order, looked up by key
PerRow(list, key) ==
    /\ Len(list) = Len(call.results)
    /\ \A i \in 1..Len(call.results) : list[i] = ValueAt(i, key)

\* C24: for bar, horizontal_bar, line, scatter and pie the two lists
\* returned have one entry per input row, in row order, looked up per row
\* under the configured column, null for a missing key or binding; for
\* histogram the values are those of the configured column without the
\* nulls; for table, an unknown type or no type the payload is columns and
\* rows, the columns being the keys of the first row, none without rows.
C24_OneEntryPerRow ==
    pc = "formatted" =>
        CASE ChartType \in {"bar", "horizontal_bar"} ->
               /\ DOMAIN result.data = {"labels", "values"}
               /\ PerRow(result.data.labels, "x_axis")
               /\ PerRow(result.data.values, "y_axis")
          [] ChartType \in {"line", "scatter"} ->
               /\ DOMAIN result.data = {"x", "y"}
               /\ PerRow(result.data.x, "x_axis")
               /\ PerRow(result.data.y, "y_axis")
          [] ChartType = "pie" ->
               /\ DOMAIN result.data = {"labels", "values"}
               /\ PerRow(result.data.labels, "labels")
               /\ PerRow(result.data.values, "values")
          [] ChartType = "histogram" ->
               result.data.values =
                   SelectSeq([i \in 1..Len(call.results) |-> ValueAt(i, "x_axis")],
                             LAMBDA v : v # NaN)
          [] ChartType = "correlation_matrix" -> TRUE
          [] OTHER ->
               /\ DOMAIN result.data = {"columns", "rows"}
               /\ result.data.rows = call.results
               /\ result.data.columns =
                    IF call.results = <<>> THEN <<>>
                    ELSE [k \in 1..Len(call.results[1]) |-> call.results[1][k][1]]

\* a bar chart over three rows, bound to a column no row has and to a
\* column one row lacks and one row holds null: three nulls, and three
\* values of which two are null
C24_Witness ==
    /\ pc = "formatted"
    /\ ChartType = "bar"
    /\ Bound("x_axis") = "nope"
    /\ Bound("y_axis") = "amount"
    /\ Len(call.results) = 3
    /\ result.data.labels = <<NaN, NaN, NaN>>
    /\ result.data.values = <<NaN, Cell(2), NaN>>
    /\ Len(call.results[1]) = 1
    /\ Len(call.results[3]) = 3

\* the numeric columns of the result set, in column order
NumericColumnsOf(results) ==
    LET columns == RecordColumns(results)
    IN  SelectSeq(columns,
          LAMBDA c : /\ \E i \in 1..Len(results) : Len(RowGet(results[i], c)) = 1
                     /\ \A i \in 1..Len(results) : Len(RowGet(results[i], c)) <= 1)

\* C25: for correlation_matrix the labels are the numeric columns of the
\* result set in column order, and the matrix is square, |labels| rows of
\* |labels| entries, none of them NaN, for every result set.
C25_SquareMatrix ==
    (pc = "formatted" /\ ChartType = "correlation_matrix") =>
        /\ result.data.labels = NumericColumnsOf(call.results)
        /\ Len(result.data.matrix) = Len(result.data.labels)
        /\ \A i \in 1..Len(result.data.matrix) :
              /\ Len(result.data.matrix[i]) = Len(result.data.labels)
              /\ \A j \in 1..Len(result.data.matrix[i]) : ~IsNull(result.data.matrix[i][j])

\* the explicit chart type of the call is "histogram"
ExplicitHistogram ==
    /\ "intent" \in DOMAIN call
    /\ ExplicitChart(DictGet(call.intent, "explicit_chart_type", J("null", <<>>))) = "histogram"

\* the distribution rule selected the chart
DistributionRule ==
    /\ "intent" \in DOMAIN call
    /\ ExplicitChart(DictGet(call.intent, "explicit_chart_type", J("null", <<>>))) = None
    /\ DictGet(call.intent, "primary_intent", "comparison") = "distribution"
    /\ DictGet(call.data_structure, "numeric_columns", <<>>) # <<>>

\* the bin count the row-count heuristic gives
BinsByRowCount ==
    LET row_count == DictGet(call.data_structure, "row_count", 0)
    IN  IF row_count < 10 THEN 5
        ELSE IF row_count < 100 THEN 10
        ELSE IF row_count < 1000 THEN 20
        ELSE 30

\* C30: an explicit "histogram" gives a configuration with no x_axis and
\* no bin count, for which format_data_for_chart returns no values and
\* bins = 10 for every result set; the distribution rule binds x_axis to
\* the first numeric column and the bin count to the row-count heuristic
\* (5, 10, 20, 30 for fewer than 10, 100, 1000 rows, otherwise), and the
\* formatted data carry that column's values and that bin count.
C30_ExplicitHistogramUnbound ==
    /\ (pc \in {"selected", "formatted"} /\ ExplicitHistogram =>
          /\ result.chart_config = [type |-> "histogram"]
          /\ (pc = "formatted" => result.data = [values |-> <<>>, bins |-> 10]))
    /\ (pc \in {"selected", "formatted"} /\ DistributionRule =>
          /\ result.chart_config.type = "histogram"
          /\ result.chart_config.x_axis = call.data_structure.numeric_columns[1]
          /\ result.chart_config.config.bins = BinsByRowCount
          /\ (pc = "formatted" =>
                /\ result.data.bins = BinsByRowCount
                /\ result.data.values =
                     SelectSeq([i \in 1..Len(call.results) |-> ValueAt(i, "x_axis")],
                               LAMBDA v : v # NaN)))

\* an explicit histogram over rows that hold amounts, for a classification
\* of 1000 rows with a numeric column: no values and 10 bins, where the
\* distribution rule gives 30
C30_Witness ==
    /\ pc = "formatted"
    /\ ExplicitHistogram
    /\ DictGet(call.data_structure, "numeric_columns", <<>>) = <<"amount">>
    /\ DictGet(call.data_structure, "row_count", 0) = 1000
    /\ BinsByRowCount = 30
    /\ Len(call.results) = 3
    /\ \A i \in 1..3 : ~IsNull(RowGet(call.results[i], "amount"))
    /\ result.data = [values |-> <<>>, bins |-> 10]

(* ---------------------------------------------------------------------- *)
(* Users (core/auth.py, api/routes/auth.py).  The table users of auth.db   *)
(* is a list of rows in insertion order; email is declared UNIQUE.         *)
(*   df     : unused (no row set)                                           *)
(*   call   : the last call and its arguments                               *)
(*   result : the table users, the table as it was before the last call,    *)
(*            and what the last call returned or raised                     *)
(*   pc     : the operation called last                                     *)
(* ---------------------------------------------------------------------- *)
\* addresses as they are typed: three mailboxes, in several spellings
Emails ==
    { <<"a", "@", "t">>, <<"A", "@", "T">>, <<" ", "a", "@", "t", " ">>,
      <<"b", "@", "t">>, <<"B", "@", "t", "\t">>, <<"c", "@", "t">> }
Passwords == {"password123", "password456"}
\* secrets.token_hex(16): any of the salts
Salts == {"5f", "c3"}

\* email.lower().strip()
NormalEmail(email) == Strip(LowerChars(email))

\* salt$hash with hash = sha256(salt + password): two digests are equal
\* when salt and password are
_hash_password(password, salt) == [salt |-> salt, digest |-> <<salt, password>>]

\* stored.split("$", 1) gives the salt of every value _hash_password made
_verify_password(password, stored) == _hash_password(password, stored.salt) = stored

\* INSERT INTO users into a table whose email column is not UNIQUE
InsertUnchecked(users, row) ==
    [raised |-> FALSE, users |-> Append(users, [row EXCEPT !.id = Len(users) + 1])]

\* INSERT INTO users: the UNIQUE constraint on email rejects a row whose
\* email is in the table, and then no row is written
Insert(users, row) ==
    IF \E k \in 1..Len(users) : users[k].email = row.email
    THEN [raised |-> TRUE, error |-> "IntegrityError", users |-> users]
    ELSE [raised |-> FALSE, users |-> Append(users, [row EXCEPT !.id = Len(users) + 1])]

create_user(users, email, password, full_name, salt) ==
    LET inserted == Insert(users, [id |-> 0, email |-> NormalEmail(email), full_name |-> full_name,
                                   password_hash |-> _hash_password(password, salt)])
    IN  IF inserted.raised
        THEN inserted
        ELSE [raised |-> FALSE, users |-> inserted.users,
              user |-> [user_id |-> Len(inserted.users), email |-> NormalEmail(email),
                        full_name |-> full_name]]

\* the None of fetchone() and of authenticate_user: no user
NoUser == <<>>

\* SELECT ... WHERE email = ? and fetchone()
get_user_by_email(users, email) ==
    LET rows == SelectSeq(users, LAMBDA u : u.email = NormalEmail(email))
    IN  IF rows = <<>> THEN NoUser
        ELSE [user_id |-> rows[1].id, email |-> rows[1].email, full_name |-> rows[1].full_name,
              password_hash |-> rows[1].password_hash]

authenticate_user(users, email, password) ==
    LET user == get_user_by_email(users, email)
    IN  IF user = NoUser THEN NoUser
        ELSE IF ~_verify_password(password, user.password_hash) THEN NoUser
        ELSE [user_id |-> user.user_id, email |-> user.email, full_name |-> user.full_name]

\* create_access_token: the claims the token is signed over
AccessToken(user) == [sub |-> user.user_id, email |-> user.email]

AuthResponse(user) ==
    [status |-> 200, access_token |-> AccessToken(user), user_id |-> user.user_id,
     email |-> user.email, full_name |-> user.full_name]

InitAuth ==
    /\ df = NoFrame
    /\ call = <<>>
    /\ result = [users |-> <<>>, before |-> <<>>, returned |-> <<>>]
    /\ pc = "start"

\* the state after a call of create_user that gave created
Created(created, response) ==
    result' = [users |-> created.users, before |-> result.users, returned |-> response]

\* auth.create_user called directly
CreateUser ==
    \E email \in Emails, password \in Passwords, salt \in Salts :
        /\ call' = [email |-> email, password |-> password]
        /\ Created(create_user(result.users, email, password, None, salt),
                   create_user(result.users, email, password, None, salt))
        /\ pc' = "create_user"
        /\ UNCHANGED df

\* the response of signup for what create_user gave: any exception is
\* answered with HTTP 400; the copy of the default dataset into the new
\* user's directory touches no user
SignupResponse(created) ==
    IF created.raised
    THEN [status |-> 400, detail |-> "An account with this email already exists."]
    ELSE AuthResponse(created.user)

\* POST /auth/signup
Signup ==
    \E email \in Emails, password \in Passwords, salt \in Salts :
        /\ call' = [email |-> email, password |-> password]
        /\ Created(create_user(result.users, email, password, None, salt),
                   SignupResponse(create_user(result.users, email, password, None, salt)))
        /\ pc' = "signup"
        /\ UNCHANGED df

\* the response of login for what authenticate_user gave
LoginResponse(user) ==
    IF user = NoUser
    THEN [status |-> 401, detail |-> "Invalid email or password."]
    ELSE AuthResponse(user)

\* POST /auth/login
Login ==
    \E email \in Emails, password \in Passwords :
        /\ call' = [email |-> email, password |-> password]
        /\ result' = [users |-> result.users, before |-> result.users,
                      returned |-> LoginResponse(authenticate_user(result.users, email, password))]
        /\ pc' = "login"
        /\ UNCHANGED df

NextAuth ==
    \/ CreateUser
    \/ Signup
    \/ Login

SpecAuth == InitAuth /\ [][NextAuth]_vars

\* the call failed: create_user raised, signup answered HTTP 400
Refused ==
    IF pc = "signup" THEN result.returned.status = 400 ELSE result.returned.raised

\* the passwords that authenticate the address in a table
Authenticating(users, email) ==
    {p \in Passwords : authenticate_user(users, email, p) # NoUser}

\* C21: no two stored users have the same lower-cased, trimmed email; a
\* creation with a registered email fails (create_user raises, signup
\* answers 400), leaves the table as it was, and the passwords that
\* authenticate the address are those that did before: one password, the
\* original one; a creation that succeeds makes its password the one that
\* authenticates.
C21_UniqueEmails ==
    /\ \A i, j \in 1..Len(result.users) :
          i # j => NormalEmail(result.users[i].email) # NormalEmail(result.users[j].email)
    /\ (pc \in {"create_user", "signup"} =>
          IF get_user_by_email(result.before, call.email) # NoUser
          THEN /\ Refused
               /\ result.users = result.before
               /\ Authenticating(result.users, call.email) = Authenticating(result.before, call.email)
               /\ Cardinality(Authenticating(result.users, call.email)) = 1
          ELSE /\ ~Refused
               /\ Len(result.users) = Len(result.before) + 1
               /\ Authenticating(result.users, call.email) = {call.password})

\* a signup with another spelling of a registered address and another
\* password was refused, and the first password still authenticates while
\* the new one does not
C21_Witness ==
    /\ pc = "signup"
    /\ result.returned.status = 400
    /\ call.email = <<"A", "@", "T">>
    /\ Len(result.users) = 2
    /\ result.users[1].email = <<"a", "@", "t">>
    /\ call.password = "password456"
    /\ authenticate_user(result.users, call.email, "password123") # NoUser
    /\ authenticate_user(result.users, call.email, "password456") = NoUser

====
